---------------------------- MODULE Spec2Model ----------------------------
(***************************************************************************)
(* Model of Tudat's OrbitDeterminationManager (orbitDeterminationManager.h *)
(* kept as src/unnamed/part_000): the convergence checker, the assembly of *)
(* residuals, partials and weights, the column normalisation and the       *)
(* estimation loop of estimateParameters.                                  *)
(*                                                                         *)
(* Numbers.  A C++ double that only takes part in sums, differences and    *)
(* comparisons is an integer (observations, residuals and weights are      *)
(* counted in tenths of the unit of the observable).  A double that is the *)
(* result of a division is an extended rational <<n, d>> in lowest terms   *)
(* with d >= 0; <<1, 0>> and <<-1, 0>> are the two infinities and <<0, 0>> *)
(* is NaN, so that a division by zero has the outcome IEEE-754 gives it.   *)
(* Signed zeros and rounding are not modelled.  A root mean square is a    *)
(* fixed-point number: the integer part of RmsResolution times the root.   *)
(* The partials, the normalization terms, the corrections and the          *)
(* parameter vectors are extended rationals throughout.                    *)
(***************************************************************************)
EXTENDS Integers, Sequences, FiniteSets, TLC

(***************************************************************************)
(* Bounds of the model.                                                    *)
(***************************************************************************)
\* largest maximumNumberOfIterations a convergence checker is built with
MaxIterationsBound == 3
\* longest RMS history handed to isEstimationConverged when it is called directly
MaxHistoryLength == 3

\* number of rows of the matrices handed directly to normalizeObservationMatrix
MaxMatrixRows == 2

(***************************************************************************)
(* Integer helpers.                                                        *)
(***************************************************************************)
Abs(x) == IF x < 0 THEN -x ELSE x

Sign(x) == IF x < 0 THEN -1 ELSE IF x > 0 THEN 1 ELSE 0

Max(a, b) == IF a >= b THEN a ELSE b

\* Euclid's algorithm
GCD(a, b) ==
    LET gcd[p \in Nat \X Nat] == IF p[2] = 0 THEN p[1] ELSE gcd[<<p[2], p[1] % p[2]>>]
    IN gcd[<<a, b>>]

\* integer part of the square root: the largest k with k * k <= x, by bisection;
\* the upper end of the search keeps mid * mid inside TLC's integers
ISqrt(x) ==
    LET search[p \in Nat \X Nat] ==
            IF p[1] >= p[2] THEN p[1]
            ELSE LET mid == (p[1] + p[2] + 1) \div 2
                 IN IF mid * mid <= x THEN search[<<mid, p[2]>>]
                                      ELSE search[<<p[1], mid - 1>>]
    IN search[<<0, IF x < 40000 THEN x ELSE 40000>>]

SumSeq(s) ==
    LET sum[i \in 0..Len(s)] == IF i = 0 THEN 0 ELSE sum[i - 1] + s[i]
    IN sum[Len(s)]

(***************************************************************************)
(* Extended rationals: the doubles that come out of a division.            *)
(***************************************************************************)
\* a numerator and a denominator; the operations below are written as functions
\* of such pairs, so that each is worked out on the values of its operands
Fraction == Int \X Int

QNaN == <<0, 0>>

QNorm(n, d) ==
    LET norm[f \in Fraction] ==
            IF f[2] = 0 THEN <<Sign(f[1]), 0>>
            ELSE LET g == GCD(Abs(f[1]), Abs(f[2]))
                     s == IF f[2] < 0 THEN -1 ELSE 1
                 IN <<(s * f[1]) \div g, (s * f[2]) \div g>>
    IN norm[<<n, d>>]

QInt(n) == <<n, 1>>

QIsFinite(a) == a[2] # 0

QAdd(a, b) ==
    LET add[x \in Fraction, y \in Fraction] ==
            IF x[2] = 0 /\ y[2] = 0
            THEN (IF x = y THEN x ELSE QNaN)
            ELSE QNorm(x[1] * y[2] + y[1] * x[2], x[2] * y[2])
    IN add[a, b]

QNeg(a) == <<-a[1], a[2]>>

QSub(a, b) == QAdd(a, QNeg(b))

QMul(a, b) ==
    LET mul[x \in Fraction, y \in Fraction] == QNorm(x[1] * y[1], x[2] * y[2])
    IN mul[a, b]

\* 1 / a: 1 / 0 is +infinity, 1 / infinity is 0, 1 / NaN is NaN
QInv(a) ==
    LET inv[x \in Fraction] == IF x[1] < 0 THEN <<-x[2], -x[1]>> ELSE <<x[2], x[1]>>
    IN inv[a]

QDiv(a, b) == QMul(a, QInv(b))

QAbs(a) == <<Abs(a[1]), a[2]>>

\* a <= b for numbers that are not NaN (denominators are never negative)
QLessEq(a, b) ==
    LET lessEq[x \in Fraction, y \in Fraction] ==
            IF x[2] = 0 /\ y[2] = 0 THEN x[1] <= y[1]
            ELSE IF x[2] = 0 THEN x[1] < 0
            ELSE IF y[2] = 0 THEN y[1] > 0
            ELSE x[1] * y[2] <= y[1] * x[2]
    IN lessEq[a, b]

QSum(s) ==
    LET total[t \in Seq(Fraction)] ==
            LET sum[i \in 0..Len(t)] == IF i = 0 THEN QInt(0) ELSE QAdd(sum[i - 1], t[i])
            IN sum[Len(t)]
    IN total[s]

\* vectors and matrices (a matrix is a sequence of rows)
QVec(v) == [i \in 1..Len(v) |-> QInt(v[i])]

QMat(m) == [i \in 1..Len(m) |-> QVec(m[i])]

ZeroVector(n) == [i \in 1..n |-> 0]

ZeroMatrix(rows, cols) == [i \in 1..rows |-> ZeroVector(cols)]

QZeroVector(n) == [i \in 1..n |-> QInt(0)]

QZeroMatrix(rows, cols) == [i \in 1..rows |-> QZeroVector(cols)]

Column(m, j) == [i \in 1..Len(m) |-> m[i][j]]

\* Eigen's v.segment( start, Len(seg) ) = seg, with start counted from 0
SetSegment(v, start, seg) ==
    [i \in 1..Len(v) |->
        IF start < i /\ i <= start + Len(seg) THEN seg[i - start] ELSE v[i]]


(***************************************************************************)
(* 64-bit unsigned arithmetic of the convergence test.  std::distance      *)
(* yields a std::ptrdiff_t and vector::size a std::size_t, so their        *)
(* difference is taken modulo 2^64; a 64-bit word is written as four       *)
(* 16-bit limbs, lowest limb first.                                        *)
(***************************************************************************)
LimbBase == 2^16

\* the 64-bit two's-complement image of a (small) signed integer
ToSizeT(n) ==
    IF n >= 0
    THEN <<n % LimbBase, n \div LimbBase, 0, 0>>
    ELSE LET m == -n - 1
         IN <<LimbBase - 1 - (m % LimbBase), LimbBase - 1 - (m \div LimbBase),
              LimbBase - 1, LimbBase - 1>>

\* an unsigned int (32 bits) initialised from an int, widened to 64 bits
UnsignedIntToSizeT(n) ==
    IF n >= 0
    THEN <<n % LimbBase, n \div LimbBase, 0, 0>>
    ELSE LET m == -n - 1
         IN <<LimbBase - 1 - (m % LimbBase), LimbBase - 1 - (m \div LimbBase), 0, 0>>

SizeTLess(a, b) ==
    \E i \in 1..4 : a[i] < b[i] /\ \A j \in (i + 1)..4 : a[j] = b[j]

(***************************************************************************)
(* EstimationConvergenceChecker.  A checker is the record of its four      *)
(* members; the two residual thresholds are in the unit of the RMS.        *)
(***************************************************************************)
EstimationConvergenceChecker(maxIterations, minChange, minResidual, withoutImprovement) ==
    [maximumNumberOfIterations_ |-> maxIterations,
     minimumResidualChange_ |-> minChange,
     minimumResidual_ |-> minResidual,
     numberOfIterationsWithoutImprovement_ |-> withoutImprovement]

\* std::max_element: the first of the largest elements, as a distance from begin( )
MaxElementDistance(rmsResidualHistory) ==
    (CHOOSE i \in 1..Len(rmsResidualHistory) :
        /\ \A j \in 1..Len(rmsResidualHistory) :
              rmsResidualHistory[j] <= rmsResidualHistory[i]
        /\ \A j \in 1..(i - 1) : rmsResidualHistory[j] < rmsResidualHistory[i]) - 1

\* the cap test with > in place of >=
MaximumIterationsNotBelow(numberOfIterations, maximumNumberOfIterations) ==
    numberOfIterations > maximumNumberOfIterations

MaximumIterationsReached(numberOfIterations, maximumNumberOfIterations) ==
    numberOfIterations >= maximumNumberOfIterations

RequiredResidualAchieved(checker, rmsResidualHistory) ==
    rmsResidualHistory[Len(rmsResidualHistory)] < checker.minimumResidual_

\* variant of TooManyIterationsWithoutImprovement that subtracts and compares
\* as signed integers
SignedWithoutImprovement(checker, rmsResidualHistory) ==
    MaxElementDistance(rmsResidualHistory) - Len(rmsResidualHistory)
        < checker.numberOfIterationsWithoutImprovement_

\* lines 122-124: distance minus size, compared as 64-bit unsigned numbers
TooManyIterationsWithoutImprovement(checker, rmsResidualHistory) ==
    SizeTLess(ToSizeT(MaxElementDistance(rmsResidualHistory) - Len(rmsResidualHistory)),
              UnsignedIntToSizeT(checker.numberOfIterationsWithoutImprovement_))

ResidualChangeBelowMinimum(checker, rmsResidualHistory) ==
    /\ Len(rmsResidualHistory) > 1
    /\ Abs(rmsResidualHistory[Len(rmsResidualHistory)]
           - rmsResidualHistory[Len(rmsResidualHistory) - 1])
         < checker.minimumResidualChange_

\* isEstimationConverged, for a history that is not empty
IsEstimationConverged(checker, numberOfIterations, rmsResidualHistory) ==
    \/ MaximumIterationsReached(numberOfIterations, checker.maximumNumberOfIterations_)
    \/ RequiredResidualAchieved(checker, rmsResidualHistory)
    \/ TooManyIterationsWithoutImprovement(checker, rmsResidualHistory)
    \/ ResidualChangeBelowMinimum(checker, rmsResidualHistory)

(***************************************************************************)
(* Observation data and weights: std::map< ObservableType, std::map<       *)
(* LinkEnds, ... > > is a function on the pairs <<observable type, link    *)
(* ends>>; iterating the nested maps visits the pairs in lexicographic     *)
(* order.                                                                  *)
(***************************************************************************)
KeyLess(a, b) == a[1] < b[1] \/ (a[1] = b[1] /\ a[2] < b[2])

RECURSIVE MapOrder(_)
\* the keys of a nested map in the order its iterators visit them
MapOrder(keys) ==
    IF keys = {} THEN <<>>
    ELSE LET first == CHOOSE k \in keys : \A other \in keys \ {k} : KeyLess(k, other)
         IN <<first>> \o MapOrder(keys \ {first})

RECURSIVE SetOrder(_)
\* the keys of a std::map with integer keys, ascending
SetOrder(keys) ==
    IF keys = {} THEN <<>>
    ELSE LET first == CHOOSE k \in keys : \A other \in keys : k <= other
         IN <<first>> \o SetOrder(keys \ {first})

\* getConcatenatedWeightsVector
RECURSIVE TotalWeights(_, _)
TotalWeights(weightsData, order) ==
    IF order = <<>> THEN 0
    ELSE Len(weightsData[order[1]]) + TotalWeights(weightsData, Tail(order))

RECURSIVE ConcatenateWeights(_, _, _, _)
ConcatenateWeights(weightsData, order, currentIndex, concatenatedWeights) ==
    IF order = <<>> THEN concatenatedWeights
    ELSE ConcatenateWeights(
            weightsData, Tail(order), currentIndex + Len(weightsData[order[1]]),
            SetSegment(concatenatedWeights, currentIndex, weightsData[order[1]]))

GetConcatenatedWeightsVector(weightsData) ==
    LET order == MapOrder(DOMAIN weightsData)
        totalNumberOfObservations == TotalWeights(weightsData, order)
    IN ConcatenateWeights(weightsData, order, 0, ZeroVector(totalNumberOfObservations))

\* getNumberOfObservationsPerObservable: <<count per observable type, total>>
RECURSIVE SumObservations(_, _)
SumObservations(observationsAndTimes, order) ==
    IF order = <<>> THEN 0
    ELSE Len(observationsAndTimes[order[1]].observations)
         + SumObservations(observationsAndTimes, Tail(order))

RECURSIVE SumCounts(_, _)
SumCounts(numberOfObservations, order) ==
    IF order = <<>> THEN 0
    ELSE numberOfObservations[order[1]] + SumCounts(numberOfObservations, Tail(order))

GetNumberOfObservationsPerObservable(observationsAndTimes) ==
    LET types == {k[1] : k \in DOMAIN observationsAndTimes}
        numberOfObservations ==
            [type \in types |->
                SumObservations(observationsAndTimes,
                    MapOrder({k \in DOMAIN observationsAndTimes : k[1] = type}))]
    IN [first |-> numberOfObservations,
        second |-> SumCounts(numberOfObservations, SetOrder(types))]

(***************************************************************************)
(* The observation managers and the dynamical model behind them are        *)
(* collaborators.  What an observation manager computes depends on the     *)
(* state of that model, which a reset of the parameters changes in a way   *)
(* this file does not decide: the state is the record `environment`, and   *)
(* a reset replaces it by any element of Environments.  An observable is   *)
(* modelled as slope * time; its partial with respect to parameter p is    *)
(* sensitivity[p] * Basis(p, time).                                        *)
(***************************************************************************)
Basis(p, time) == IF p = 1 THEN time ELSE 1

\* the states of the dynamical model: a slope that leaves large residuals (0) or
\* small ones (20), and sensitivities of either sign or zero
Environments(parameterVectorSize) ==
    IF parameterVectorSize = 1
    THEN {[slope |-> 0, sensitivity |-> <<1>>], [slope |-> 0, sensitivity |-> <<0>>],
          [slope |-> 20, sensitivity |-> <<1>>], [slope |-> 20, sensitivity |-> <<-2>>]}
    ELSE {[slope |-> 0, sensitivity |-> <<1, 1>>], [slope |-> 0, sensitivity |-> <<1, 0>>],
          [slope |-> 20, sensitivity |-> <<1, 1>>],
          [slope |-> 20, sensitivity |-> <<-2, 1>>]}

\* ObservationManagerBase::computeObservationsWithPartials
ComputeObservationsWithPartials(env, times, parameterVectorSize) ==
    [first |-> [i \in 1..Len(times) |-> env.slope * times[i]],
     second |-> [i \in 1..Len(times) |->
                    [p \in 1..parameterVectorSize |->
                        env.sensitivity[p] * Basis(p, times[i])]]]

(***************************************************************************)
(* Linear algebra of one iteration.                                        *)
(***************************************************************************)
MinCoeff(v) ==
    CHOOSE x \in {v[i] : i \in 1..Len(v)} : \A i \in 1..Len(v) : QLessEq(x, v[i])

MaxCoeff(v) ==
    CHOOSE x \in {v[i] : i \in 1..Len(v)} : \A i \in 1..Len(v) : QLessEq(v[i], x)

\* variant of NormalizationTerm that takes the maximum whatever the minimum is
LargerBound(minimum, maximum) == maximum

\* the scale of a column: its minimum when |minimum| > maximum, else its maximum
NormalizationTerm(minimum, maximum) ==
    IF ~QLessEq(QAbs(minimum), maximum) THEN minimum ELSE maximum

\* normalizeObservationMatrix: the scales, and the matrix with each column
\* divided by its scale
NormalizeObservationMatrix(observationMatrix) ==
    LET cols == Len(observationMatrix[1])
        divided[normalizationTerms \in Seq(Fraction)] ==
            [normalizationTerms |-> normalizationTerms,
             observationMatrix |->
                 [r \in 1..Len(observationMatrix) |->
                     [i \in 1..cols |->
                         QDiv(observationMatrix[r][i], normalizationTerms[i])]]]
    IN divided[[i \in 1..cols |->
                   NormalizationTerm(MinCoeff(Column(observationMatrix, i)),
                                     MaxCoeff(Column(observationMatrix, i)))]]

\* variant of NormalizeInverseApriori that drops the a priori information
InverseAprioriDropped(inverseAPrioriCovariance, transformationData) ==
    [j \in 1..Len(transformationData) |->
        [k \in 1..Len(transformationData) |-> <<0, 1>>]]

\* lines 528-539: entry (j, k) of the a priori inverse covariance divided by
\* transformationData( j ) * transformationData( k )
NormalizeInverseApriori(inverseAPrioriCovariance, transformationData) ==
    [j \in 1..Len(transformationData) |->
        [k \in 1..Len(transformationData) |->
            QDiv(QInt(inverseAPrioriCovariance[j][k]),
                 QMul(transformationData[j], transformationData[k]))]]

\* lines 547-549: leastSquaresOutput.first.cwiseQuotient( transformationData )
ParameterAddition(correction, transformationData) ==
    [j \in 1..Len(correction) |-> QDiv(correction[j], transformationData[j])]

\* variant of QVecAdd that subtracts the second vector
QVecDifference(a, b) == [j \in 1..Len(a) |-> QSub(a[j], b[j])]

\* lines 488 and 553: the sum of two parameter vectors
QVecAdd(a, b) == [j \in 1..Len(a) |-> QAdd(a[j], b[j])]

\* the matrix without its first row and without column j
Minor(m, j) ==
    [r \in 1..(Len(m) - 1) |->
        [c \in 1..(Len(m) - 1) |-> m[r + 1][IF c < j THEN c ELSE c + 1]]]

\* the determinant, expanded along the first row
QDet(m) ==
    LET det[a \in Seq(Seq(Fraction))] ==
            IF Len(a) = 1 THEN a[1][1]
            ELSE QSum([j \in 1..Len(a) |->
                         QMul(QMul(QInt(IF j % 2 = 1 THEN 1 ELSE -1), a[1][j]),
                              det[Minor(a, j)])])
    IN det[m]

\* J^T W J + P0^-1 and J^T W r for a diagonal W
NormalEquationsMatrix(informationMatrix, weights, inverseApriori) ==
    [j \in 1..Len(inverseApriori) |->
        [k \in 1..Len(inverseApriori) |->
            QAdd(inverseApriori[j][k],
                 QSum([i \in 1..Len(informationMatrix) |->
                         QMul(QMul(informationMatrix[i][j], QInt(weights[i])),
                              informationMatrix[i][k])]))]]

RightHandSide(informationMatrix, weights, residuals, size) ==
    [j \in 1..size |->
        QSum([i \in 1..Len(informationMatrix) |->
                QMul(informationMatrix[i][j], QInt(weights[i] * residuals[i]))])]

\* the solution of a x = b by Cramer's rule, for a matrix that is not singular
SolveLinearSystem(a, b) ==
    LET solve[m \in Seq(Seq(Fraction)), v \in Seq(Fraction)] ==
            [j \in 1..Len(m) |->
                QDiv(QDet([r \in 1..Len(m) |->
                             [c \in 1..Len(m) |-> IF c = j THEN v[r] ELSE m[r][c]]]),
                     QDet(m))]
    IN solve[a, b]

\* linear_algebra::performLeastSquaresAdjustmentFromInformationMatrix: the
\* correction and the matrix of the normal equations; a singular system fails
PerformLeastSquaresAdjustment(informationMatrix, residuals, weights, inverseApriori) ==
    LET adjustment[normal \in Seq(Seq(Fraction)), rhs \in Seq(Fraction)] ==
            IF QDet(normal) = QInt(0)
            THEN [singular |-> TRUE, first |-> <<>>, second |-> normal]
            ELSE [singular |-> FALSE, first |-> SolveLinearSystem(normal, rhs),
                  second |-> normal]
    IN adjustment[NormalEquationsMatrix(informationMatrix, weights, inverseApriori),
                  RightHandSide(informationMatrix, weights, residuals,
                                Len(inverseApriori))]

\* lines 526-549 of one iteration: normalization of the partials and of the
\* a priori inverse covariance, adjustment, and the correction divided by
\* the normalization terms
ComputeParameterAddition(informationMatrix, residuals, weights, inverseApriori) ==
    LET normalized == NormalizeObservationMatrix(informationMatrix)
        transformationData == normalized.normalizationTerms
        leastSquaresOutput ==
            PerformLeastSquaresAdjustment(
                normalized.observationMatrix, residuals, weights,
                NormalizeInverseApriori(inverseApriori, transformationData))
    IN [singular |-> leastSquaresOutput.singular,
        parameterAddition |->
            IF leastSquaresOutput.singular THEN <<>>
            ELSE ParameterAddition(leastSquaresOutput.first, transformationData)]

RmsResolution == 10

\* linear_algebra::getVectorEntryRootMeanSquare, in units of 1 / RmsResolution
GetVectorEntryRootMeanSquare(v) ==
    ISqrt((SumSeq([i \in 1..Len(v) |-> v[i] * v[i]]) * RmsResolution * RmsResolution)
          \div Len(v))

\* std::numeric_limits< double >::max( ): above every RMS of the model
DoubleMax == 2147483647

(***************************************************************************)
(* The manager object.                                                     *)
(***************************************************************************)
NullSolver == [set |-> FALSE, parameterEstimate |-> <<>>, propagations |-> 0,
               variationalPropagations |-> 0]

\* variant of InitializeOrbitDeterminationManager that accepts propagator
\* settings without an initial dynamical state
InitializeWithoutCheck(parameters, estimatesDynamics, propagatorSettings, observableTypes) ==
    [thrown |-> FALSE,
     integrateAndEstimateOrbit_ |-> estimatesDynamics,
     dynamicsIsMultiArc_ |-> (propagatorSettings = "multiArc"),
     variationalEquationsSolver_ |->
         IF estimatesDynamics
         THEN [set |-> TRUE, parameterEstimate |-> parameters, propagations |-> 1,
               variationalPropagations |-> 1]
         ELSE [set |-> FALSE, parameterEstimate |-> <<>>, propagations |-> 0,
               variationalPropagations |-> 0],
     observationManagers_ |-> [type \in observableTypes |-> "manager"],
     parametersToEstimate_ |-> parameters,
     currentParameterEstimate_ |-> parameters]

\* initializeOrbitDeterminationManager, called by both constructors.
\* estimatesDynamics: the parameter set holds an initial dynamical state;
\* propagatorSettings: "null", "singleArc" or "multiArc"
InitializeOrbitDeterminationManager(parameters, estimatesDynamics, propagatorSettings, observableTypes) ==
    LET integrateAndEstimateOrbit == estimatesDynamics
        thrown == ~integrateAndEstimateOrbit /\ propagatorSettings # "null"
    IN [thrown |-> thrown,
        integrateAndEstimateOrbit_ |-> integrateAndEstimateOrbit,
        dynamicsIsMultiArc_ |-> (propagatorSettings = "multiArc"),
        variationalEquationsSolver_ |->
            IF integrateAndEstimateOrbit
            THEN [set |-> TRUE, parameterEstimate |-> parameters, propagations |-> 1,
                  variationalPropagations |-> 1]
            ELSE NullSolver,
        observationManagers_ |->
            IF thrown THEN <<>> ELSE [type \in observableTypes |-> "manager"],
        parametersToEstimate_ |-> parameters,
        currentParameterEstimate_ |-> IF thrown THEN <<>> ELSE parameters]

\* VariationalEquationsSolver::resetParameterEstimate: the solver takes the new
\* values, hands them to the parameter container and propagates again
SolverResetParameterEstimate(mgr, newParameterEstimate, reintegrateVariationalEquations) ==
    [mgr EXCEPT
        !.variationalEquationsSolver_ =
            [set |-> TRUE, parameterEstimate |-> newParameterEstimate,
             propagations |-> @.propagations + 1,
             variationalPropagations |->
                 @.variationalPropagations
                 + (IF reintegrateVariationalEquations THEN 1 ELSE 0)],
        !.parametersToEstimate_ = newParameterEstimate]

\* variant of ResetParameterEstimate that hands every reset to the solver
ResetThroughSolver(mgr, newParameterEstimate, reintegrateVariationalEquations) ==
    [SolverResetParameterEstimate(mgr, newParameterEstimate,
                                  reintegrateVariationalEquations)
     EXCEPT !.currentParameterEstimate_ = newParameterEstimate]

\* variant of ResetParameterEstimate that adds the new values to the cached ones
ResetAccumulating(mgr, newParameterEstimate, reintegrateVariationalEquations) ==
    [(IF mgr.integrateAndEstimateOrbit_
      THEN SolverResetParameterEstimate(mgr, newParameterEstimate,
                                        reintegrateVariationalEquations)
      ELSE [mgr EXCEPT !.parametersToEstimate_ = newParameterEstimate])
     EXCEPT !.currentParameterEstimate_ =
                [j \in 1..Len(newParameterEstimate) |->
                    QAdd(@[j], newParameterEstimate[j])]]

\* OrbitDeterminationManager::resetParameterEstimate
ResetParameterEstimate(mgr, newParameterEstimate, reintegrateVariationalEquations) ==
    [(IF mgr.integrateAndEstimateOrbit_
      THEN SolverResetParameterEstimate(mgr, newParameterEstimate,
                                        reintegrateVariationalEquations)
      ELSE [mgr EXCEPT !.parametersToEstimate_ = newParameterEstimate])
     EXCEPT !.currentParameterEstimate_ = newParameterEstimate]

\* getCurrentParameterEstimate
GetCurrentParameterEstimate(mgr) == mgr.currentParameterEstimate_

(***************************************************************************)
(* Inputs of a run.  A scenario is a manager's construction together with  *)
(* the PodInput and the convergence checker handed to estimateParameters.  *)
(***************************************************************************)
SingleGroupObservations ==
    (<<1, 1>> :> [observations |-> <<21, 39, 62>>, times |-> <<1, 2, 3>>])

ThreeGroupObservations ==
    (<<1, 1>> :> [observations |-> <<21>>, times |-> <<1>>])
    @@ (<<1, 2>> :> [observations |-> <<-59, 41>>, times |-> <<-3, 2>>])
    @@ (<<2, 1>> :> [observations |-> <<38>>, times |-> <<2>>])

\* PodInput::setConstantWeightsMatrix
ConstantWeights(observationsAndTimes, weight) ==
    [k \in DOMAIN observationsAndTimes |->
        [i \in 1..Len(observationsAndTimes[k].observations) |-> weight]]

\* weights that differ from group to group
GroupWeights(observationsAndTimes) ==
    [k \in DOMAIN observationsAndTimes |->
        [i \in 1..Len(observationsAndTimes[k].observations) |-> 2 * k[1] + k[2] - 2]]

\* a weights map that lacks the last group of the observations
IncompleteWeights(observationsAndTimes) ==
    LET order == MapOrder(DOMAIN observationsAndTimes)
    IN [k \in DOMAIN observationsAndTimes \ {order[Len(order)]} |->
            GroupWeights(observationsAndTimes)[k]]

WeightsInput(kind, observationsAndTimes) ==
    CASE kind = "constant" -> ConstantWeights(observationsAndTimes, 1)
      [] kind = "group" -> GroupWeights(observationsAndTimes)
      [] kind = "incomplete" -> IncompleteWeights(observationsAndTimes)

ZeroInverseApriori(size) == ZeroMatrix(size, size)

PositiveInverseApriori(size) ==
    [j \in 1..size |-> [k \in 1..size |-> IF j = k THEN 2 ELSE 1]]

InverseAprioriInput(kind, size) ==
    IF kind = "zero" THEN ZeroInverseApriori(size) ELSE PositiveInverseApriori(size)

PodInput(observationsAndTimes, weights, inverseApriori, deviation, flags) ==
    [observationsAndTimes |-> observationsAndTimes,
     weightsMatrixDiagonals |-> weights,
     inverseOfAprioriCovariance |-> inverseApriori,
     initialParameterDeviationEstimate |-> deviation,
     reintegrateEquationsOnFirstIteration |-> flags[1],
     reintegrateVariationalEquations |-> flags[2],
     saveStateHistoryForEachIteration |-> flags[3],
     saveResidualsAndParametersFromEachIteration |-> flags[4],
     saveInformationMatrix |-> flags[5],
     printOutput |-> flags[6]]

Scenario(parameters, construction, types, input, checker) ==
    [parameters |-> parameters, estimatesDynamics |-> construction[1],
     propagatorSettings |-> construction[2], observableTypes |-> types,
     podInput |-> input, convergenceChecker |-> checker]

\* scenarios that vary the flags and the convergence settings over one data set
ControlScenarios ==
    {Scenario(QVec(<<0>>), construction, {1, 2},
              PodInput(SingleGroupObservations,
                       ConstantWeights(SingleGroupObservations, 1),
                       ZeroInverseApriori(1), <<5>>,
                       <<first, ~bookkeeping, history, save, bookkeeping, bookkeeping>>),
              EstimationConvergenceChecker(maxIterations, minChange, minResidual, 2)) :
        construction \in {<<FALSE, "null">>, <<TRUE, "singleArc">>},
        first \in BOOLEAN, history \in BOOLEAN, save \in BOOLEAN,
        bookkeeping \in BOOLEAN,
        maxIterations \in 0..MaxIterationsBound,
        minChange \in {0, 1}, minResidual \in {0, 100}}

\* scenarios that vary the data over one setting of the flags
DataScenarios ==
    {Scenario(QVec(parameters), construction, types,
              PodInput(observations, WeightsInput(weights, observations),
                       InverseAprioriInput(inverseApriori, Len(parameters)),
                       [p \in 1..Len(parameters) |-> deviation],
                       <<FALSE, TRUE, FALSE, FALSE, FALSE, FALSE>>),
              EstimationConvergenceChecker(2, 0, 0, 2)) :
        parameters \in {<<0>>, <<0, 10>>},
        construction \in {<<FALSE, "null">>, <<TRUE, "multiArc">>, <<FALSE, "singleArc">>},
        types \in {{1, 2}, {1}},
        observations \in {SingleGroupObservations, ThreeGroupObservations},
        weights \in {"constant", "group", "incomplete"},
        inverseApriori \in {"zero", "positive"},
        deviation \in {0, 5}}

Scenarios == ControlScenarios \cup DataScenarios

(***************************************************************************)
(* State.                                                                  *)
(***************************************************************************)
VARIABLES
    manager,          \* the OrbitDeterminationManager object
    environment,      \* the state of the dynamical model the observation managers read
    podInput,         \* argument of estimateParameters
    convergenceChecker, \* argument of estimateParameters
    pc,               \* position in estimateParameters
    numberOfIterations,
    rmsResidualHistory,
    residualRms,
    newParameterEstimate,
    oldParameterEstimate,
    residualsAndPartials,
    startIndex,       \* of calculateObservationMatrixAndResiduals
    groupCursor,      \* number of groups its iterators have passed
    transformationData,
    normalizedInverseAprioriCovarianceMatrix,
    leastSquaresOutput,
    parameterAddition,
    best,             \* the best* variables of estimateParameters
    residualHistory,
    parameterHistory,
    dynamicsHistoryPerIteration,
    podOutput,        \* the returned PodOutput
    iterationLog,     \* history variable: what each completed iteration produced
    resetLog,         \* history variable: the calls of resetParameterEstimate of the run
    assemblyLog,      \* history variable: what each assembly of residuals started from
    direct            \* a direct call of one of the functions, and its result

managerVars == <<manager, environment>>

inputVars == <<podInput, convergenceChecker>>

loopVars == <<numberOfIterations, rmsResidualHistory, residualRms,
              newParameterEstimate, oldParameterEstimate>>

iterationVars == <<residualsAndPartials, startIndex, groupCursor, transformationData,
                   normalizedInverseAprioriCovarianceMatrix, leastSquaresOutput,
                   parameterAddition>>

bookVars == <<best, residualHistory, parameterHistory, dynamicsHistoryPerIteration,
              iterationLog, resetLog, assemblyLog>>

vars == <<managerVars, inputVars, pc, loopVars, iterationVars, bookVars, podOutput,
          direct>>

\* line 463
ParameterVectorSize == Len(manager.parametersToEstimate_)

\* lines 464-466
TotalNumberOfObservations ==
    GetNumberOfObservationsPerObservable(podInput.observationsAndTimes).second

GroupOrder == MapOrder(DOMAIN podInput.observationsAndTimes)

NoOutput == [returned |-> FALSE]

NoDirectCall == [function |-> "none"]

\* the variables declared inside the loop body, before the body sets them
FreshIteration ==
    /\ residualsAndPartials' = [first |-> <<>>, second |-> <<>>]
    /\ startIndex' = 0
    /\ groupCursor' = 0
    /\ transformationData' = <<>>
    /\ normalizedInverseAprioriCovarianceMatrix' = <<>>
    /\ leastSquaresOutput' = [first |-> <<>>, second |-> <<>>]
    /\ parameterAddition' = <<>>

\* lines 469-475
InitialBest(parameterVectorSize, totalNumberOfObservations) ==
    [bestResidual |-> DoubleMax,
     bestParameterEstimate |-> QZeroVector(parameterVectorSize),
     bestTransformationData |-> QZeroVector(parameterVectorSize),
     bestResiduals |-> ZeroVector(totalNumberOfObservations),
     bestInformationMatrix |-> QZeroMatrix(totalNumberOfObservations, parameterVectorSize),
     bestWeightsMatrixDiagonal |-> ZeroVector(totalNumberOfObservations),
     bestInverseNormalizedCovarianceMatrix |->
         QZeroMatrix(parameterVectorSize, parameterVectorSize)]

\* the state once the constructor has run, before estimateParameters is called
Constructed(scenario) ==
    LET constructed ==
            InitializeOrbitDeterminationManager(
                scenario.parameters, scenario.estimatesDynamics,
                scenario.propagatorSettings, scenario.observableTypes)
    IN /\ manager = constructed
       /\ environment \in Environments(Len(scenario.parameters))
       /\ podInput = scenario.podInput
       /\ convergenceChecker = scenario.convergenceChecker
       /\ pc = IF constructed.thrown THEN "constructionFailed" ELSE "idle"
       /\ numberOfIterations = 0
       /\ rmsResidualHistory = <<>>
       /\ residualRms = 0
       /\ newParameterEstimate = <<>>
       /\ oldParameterEstimate = <<>>
       /\ residualsAndPartials = [first |-> <<>>, second |-> <<>>]
       /\ startIndex = 0
       /\ groupCursor = 0
       /\ transformationData = <<>>
       /\ normalizedInverseAprioriCovarianceMatrix = <<>>
       /\ leastSquaresOutput = [first |-> <<>>, second |-> <<>>]
       /\ parameterAddition = <<>>
       /\ best = InitialBest(0, 0)
       /\ residualHistory = <<>>
       /\ parameterHistory = <<>>
       /\ dynamicsHistoryPerIteration = <<>>
       /\ podOutput = NoOutput
       /\ iterationLog = <<>>
       /\ resetLog = <<>>
       /\ assemblyLog = <<>>

Init == \E scenario \in Scenarios : Constructed(scenario) /\ direct = NoDirectCall

(***************************************************************************)
(* estimateParameters.                                                     *)
(***************************************************************************)
\* where a while loop would start: at the convergence test
LoopEntryAtCheck == "check"

\* line 497: a do-while loop enters its body before the first test
LoopEntry == "reset"

\* lines 460-496
EstimateParametersBegin ==
    /\ pc = "idle"
    /\ manager' = [manager EXCEPT !.currentParameterEstimate_ = manager.parametersToEstimate_]
    /\ best' = InitialBest(ParameterVectorSize, TotalNumberOfObservations)
    /\ residualHistory' = <<>>
    /\ parameterHistory' = <<>>
    /\ dynamicsHistoryPerIteration' = <<>>
    /\ rmsResidualHistory' = <<>>
    /\ newParameterEstimate' =
           QVecAdd(manager.parametersToEstimate_,
                   QVec(podInput.initialParameterDeviationEstimate))
    /\ oldParameterEstimate' = manager.parametersToEstimate_
    /\ numberOfIterations' = 0
    /\ resetLog' = <<>>
    /\ assemblyLog' = <<>>
    /\ pc' = LoopEntry
    /\ UNCHANGED <<environment, inputVars, residualRms, iterationVars, iterationLog,
                   podOutput, direct>>

\* variant of ResetIsDue that resets from the second iteration on only
ResetAfterFirstOnly(iterations, reintegrateEquationsOnFirstIteration) ==
    iterations > 0

\* line 500: the condition under which an iteration starts with a reset
ResetIsDue(iterations, reintegrateEquationsOnFirstIteration) ==
    iterations > 0 \/ reintegrateEquationsOnFirstIteration

\* lines 499-513: reset, state history, oldParameterEstimate
EstimateParametersReset ==
    /\ pc = "reset"
    /\ IF ResetIsDue(numberOfIterations, podInput.reintegrateEquationsOnFirstIteration)
       THEN /\ manager' = ResetParameterEstimate(manager, newParameterEstimate,
                                                 podInput.reintegrateVariationalEquations)
            /\ environment' \in Environments(ParameterVectorSize)
            /\ resetLog' = Append(resetLog,
                   [iteration |-> numberOfIterations,
                    currentParameterEstimate_ |-> manager.currentParameterEstimate_,
                    newParameterEstimate |-> newParameterEstimate,
                    reintegrateVariationalEquations |->
                        podInput.reintegrateVariationalEquations])
       ELSE UNCHANGED <<managerVars, resetLog>>
    /\ IF podInput.saveStateHistoryForEachIteration
       THEN IF manager.variationalEquationsSolver_.set
            THEN /\ dynamicsHistoryPerIteration' =
                        Append(dynamicsHistoryPerIteration, environment')
                 /\ oldParameterEstimate' = newParameterEstimate
                 /\ pc' = "calculate"
            ELSE \* the solver pointer is null
                 /\ pc' = "crashed"
                 /\ UNCHANGED <<dynamicsHistoryPerIteration, oldParameterEstimate>>
       ELSE /\ oldParameterEstimate' = newParameterEstimate
            /\ pc' = "calculate"
            /\ UNCHANGED dynamicsHistoryPerIteration
    /\ UNCHANGED <<inputVars, numberOfIterations, rmsResidualHistory, residualRms,
                   newParameterEstimate, iterationVars, best, residualHistory,
                   parameterHistory, iterationLog, assemblyLog, podOutput, direct>>

\* calculateObservationMatrixAndResiduals, lines 346-351
CalculateBegin ==
    /\ pc = "calculate"
    /\ residualsAndPartials' =
           [first |-> ZeroVector(TotalNumberOfObservations),
            second |-> QZeroMatrix(TotalNumberOfObservations, ParameterVectorSize)]
    /\ startIndex' = 0
    /\ groupCursor' = 0
    /\ pc' = IF GroupOrder = <<>> THEN "normalize" ELSE "group"
    /\ UNCHANGED <<managerVars, inputVars, loopVars, transformationData,
                   normalizedInverseAprioriCovarianceMatrix, leastSquaresOutput,
                   parameterAddition, bookVars, podOutput, direct>>

\* a row offset that is not advanced
StartIndexKept(index, size) == index

\* line 381
NextStartIndex(index, size) == index + size

\* calculateObservationMatrixAndResiduals, lines 359-383: one (observable type,
\* link ends) group
CalculateGroup ==
    /\ pc = "group"
    /\ LET key == GroupOrder[groupCursor + 1]
           data == podInput.observationsAndTimes[key]
           size == Len(data.observations)
           observationsWithPartials ==
               ComputeObservationsWithPartials(environment, data.times,
                                               ParameterVectorSize)
       IN IF key[1] \in DOMAIN manager.observationManagers_
          THEN /\ residualsAndPartials' =
                      [first |-> SetSegment(residualsAndPartials.first, startIndex,
                                    [i \in 1..size |->
                                        data.observations[i]
                                        - observationsWithPartials.first[i]]),
                       second |-> SetSegment(residualsAndPartials.second, startIndex,
                                     QMat(observationsWithPartials.second))]
               /\ startIndex' = NextStartIndex(startIndex, size)
               /\ groupCursor' = groupCursor + 1
               /\ pc' = IF groupCursor + 1 = Len(GroupOrder) THEN "normalize" ELSE "group"
               /\ UNCHANGED manager
          ELSE \* operator[] inserts a null manager, which is then dereferenced
               /\ manager' = [manager EXCEPT !.observationManagers_ =
                                  @ @@ (key[1] :> "null")]
               /\ pc' = "crashed"
               /\ UNCHANGED <<residualsAndPartials, startIndex, groupCursor>>
    /\ UNCHANGED <<environment, inputVars, loopVars, transformationData,
                   normalizedInverseAprioriCovarianceMatrix, leastSquaresOutput,
                   parameterAddition, bookVars, podOutput, direct>>

\* lines 526-539
EstimateParametersNormalize ==
    /\ pc = "normalize"
    /\ LET normalized == NormalizeObservationMatrix(residualsAndPartials.second)
       IN /\ transformationData' = normalized.normalizationTerms
          /\ residualsAndPartials' =
                 [residualsAndPartials EXCEPT !.second = normalized.observationMatrix]
          /\ normalizedInverseAprioriCovarianceMatrix' =
                 NormalizeInverseApriori(podInput.inverseOfAprioriCovariance,
                                         normalized.normalizationTerms)
    /\ assemblyLog' = Append(assemblyLog,
           [iteration |-> numberOfIterations,
            residuals |-> residualsAndPartials.first,
            oldParameterEstimate |-> oldParameterEstimate,
            currentParameterEstimate_ |-> manager.currentParameterEstimate_])
    /\ pc' = "solve"
    /\ UNCHANGED <<managerVars, inputVars, loopVars, startIndex, groupCursor,
                   leastSquaresOutput, parameterAddition, best, residualHistory,
                   parameterHistory, dynamicsHistoryPerIteration, iterationLog,
                   resetLog, podOutput, direct>>

\* what a weight read past the end of the weight vector may hold
IndeterminateWeights == {0, 3}

\* the weights the solver reads for `rows` residuals
ReadableWeights(weights, rows) ==
    IF Len(weights) >= rows
    THEN {weights}
    ELSE {[i \in 1..rows |-> IF i <= Len(weights) THEN weights[i] ELSE garbage] :
             garbage \in IndeterminateWeights}

\* lines 541-546: the least-squares solve
EstimateParametersSolve ==
    /\ pc = "solve"
    /\ LET weights == GetConcatenatedWeightsVector(podInput.weightsMatrixDiagonals)
           rows == Len(residualsAndPartials.first)
       IN \/ \E read \in ReadableWeights(weights, rows) :
                LET output == PerformLeastSquaresAdjustment(
                                  residualsAndPartials.second, residualsAndPartials.first,
                                  read, normalizedInverseAprioriCovarianceMatrix)
                IN /\ leastSquaresOutput' = [first |-> output.first, second |-> output.second]
                   /\ pc' = IF output.singular THEN "failed" ELSE "update"
          \/ \* Eigen's size assertion stops the program
             /\ Len(weights) # rows
             /\ pc' = "crashed"
             /\ UNCHANGED leastSquaresOutput
    /\ UNCHANGED <<managerVars, inputVars, loopVars, residualsAndPartials, startIndex,
                   groupCursor, transformationData,
                   normalizedInverseAprioriCovarianceMatrix, parameterAddition, bookVars,
                   podOutput, direct>>

\* variant of PushBackParameters that keeps the updated estimates only
PushBackUpdatedOnly(history, iterations, old, new) == Append(history, new)

\* lines 558-562: the estimate before the first update, then every updated one
PushBackParameters(history, iterations, old, new) ==
    (IF iterations = 0 THEN Append(history, old) ELSE history) \o <<new>>

\* lines 547-565
EstimateParametersUpdate ==
    /\ pc = "update"
    /\ parameterAddition' = ParameterAddition(leastSquaresOutput.first, transformationData)
    /\ newParameterEstimate' = QVecAdd(oldParameterEstimate, parameterAddition')
    /\ IF podInput.saveResidualsAndParametersFromEachIteration
       THEN /\ residualHistory' = Append(residualHistory, residualsAndPartials.first)
            /\ parameterHistory' =
                   PushBackParameters(parameterHistory, numberOfIterations,
                                      oldParameterEstimate, newParameterEstimate')
       ELSE UNCHANGED <<residualHistory, parameterHistory>>
    /\ oldParameterEstimate' = newParameterEstimate'
    /\ pc' = "rms"
    /\ UNCHANGED <<managerVars, inputVars, numberOfIterations, rmsResidualHistory,
                   residualRms, residualsAndPartials, startIndex, groupCursor,
                   transformationData, normalizedInverseAprioriCovarianceMatrix,
                   leastSquaresOutput, best, dynamicsHistoryPerIteration, iterationLog,
                   resetLog, assemblyLog,
                   podOutput, direct>>

\* lines 573-576.  A run appends one RMS per iteration; the guard bounds the
\* history of the model and is never the reason a run of the code stops
EstimateParametersRms ==
    /\ pc = "rms"
    /\ Len(rmsResidualHistory) <= MaxIterationsBound
    /\ residualRms' = GetVectorEntryRootMeanSquare(residualsAndPartials.first)
    /\ rmsResidualHistory' = Append(rmsResidualHistory, residualRms')
    /\ pc' = "best"
    /\ UNCHANGED <<managerVars, inputVars, numberOfIterations, newParameterEstimate,
                   oldParameterEstimate, iterationVars, bookVars, podOutput, direct>>

\* comparisons other than the strict one of line 583
IsBetterAlways(rms, bestResidual) == TRUE

IsBetterOrEqual(rms, bestResidual) == rms <= bestResidual

\* line 583
IsBetter(rms, bestResidual) == rms < bestResidual

\* what the iteration that just ended produced
IterationRecord ==
    [parameterEstimate |-> oldParameterEstimate,
     residuals |-> residualsAndPartials.first,
     informationMatrix |-> residualsAndPartials.second,
     weightsMatrixDiagonal |->
         GetConcatenatedWeightsVector(podInput.weightsMatrixDiagonals),
     transformationData |-> transformationData,
     inverseNormalizedCovarianceMatrix |-> leastSquaresOutput.second,
     residualRms |-> residualRms,
     parameterAddition |-> parameterAddition]

\* lines 582-595
EstimateParametersBest ==
    /\ pc = "best"
    /\ IF IsBetter(residualRms, best.bestResidual)
       THEN best' =
               [bestResidual |-> residualRms,
                bestParameterEstimate |-> oldParameterEstimate,
                bestResiduals |-> residualsAndPartials.first,
                bestInformationMatrix |->
                    IF podInput.saveInformationMatrix
                    THEN residualsAndPartials.second
                    ELSE best.bestInformationMatrix,
                bestWeightsMatrixDiagonal |->
                    GetConcatenatedWeightsVector(podInput.weightsMatrixDiagonals),
                bestTransformationData |-> transformationData,
                bestInverseNormalizedCovarianceMatrix |-> leastSquaresOutput.second]
       ELSE UNCHANGED best
    /\ iterationLog' = Append(iterationLog, IterationRecord)
    /\ pc' = "check"
    /\ UNCHANGED <<managerVars, inputVars, loopVars, iterationVars, residualHistory,
                   parameterHistory, dynamicsHistoryPerIteration, resetLog, assemblyLog,
                   podOutput, direct>>

\* lines 607-609
PodOutput ==
    [returned |-> TRUE,
     parameterEstimate |-> best.bestParameterEstimate,
     residuals |-> best.bestResiduals,
     informationMatrix |-> best.bestInformationMatrix,
     weightsMatrixDiagonal |-> best.bestWeightsMatrixDiagonal,
     transformationData |-> best.bestTransformationData,
     inverseNormalizedCovarianceMatrix |-> best.bestInverseNormalizedCovarianceMatrix,
     residualStandardDeviation |-> best.bestResidual,
     residualHistory |-> residualHistory,
     parameterHistory |-> parameterHistory]

\* a counter that is not incremented
IterationsKept(iterations) == iterations

\* line 599
IncrementIterations(iterations) == iterations + 1

\* lines 598-609: count the iteration, test for convergence, loop or return
EstimateParametersCheck ==
    /\ pc = "check"
    /\ numberOfIterations' = IncrementIterations(numberOfIterations)
    /\ IF IsEstimationConverged(convergenceChecker, numberOfIterations', rmsResidualHistory)
       THEN /\ pc' = "done"
            /\ podOutput' = PodOutput
            /\ UNCHANGED iterationVars
       ELSE /\ pc' = "reset"
            /\ FreshIteration
            /\ UNCHANGED podOutput
    /\ UNCHANGED <<managerVars, inputVars, rmsResidualHistory, residualRms,
                   newParameterEstimate, oldParameterEstimate, bookVars, direct>>

Next ==
    \/ EstimateParametersBegin
    \/ EstimateParametersReset
    \/ CalculateBegin
    \/ CalculateGroup
    \/ EstimateParametersNormalize
    \/ EstimateParametersSolve
    \/ EstimateParametersUpdate
    \/ EstimateParametersRms
    \/ EstimateParametersBest
    \/ EstimateParametersCheck

Spec == Init /\ [][Next]_vars

\* the control scenarios that keep no history and print nothing
TerminationScenarios ==
    {scenario \in ControlScenarios :
        /\ ~scenario.podInput.saveStateHistoryForEachIteration
        /\ ~scenario.podInput.saveResidualsAndParametersFromEachIteration
        /\ ~scenario.podInput.printOutput}

InitTermination ==
    \E scenario \in TerminationScenarios : Constructed(scenario) /\ direct = NoDirectCall

\* every call made by estimateParameters returns, so the function keeps going
FairSpec == InitTermination /\ [][Next]_vars /\ WF_vars(Next)

(***************************************************************************)
(* isEstimationConverged called directly, on any history that is not       *)
(* empty and any iteration count.                                          *)
(***************************************************************************)
RmsInputs == {0, 1, 3}

ResidualThresholdInputs == {0, 2}

WithoutImprovementInputs == {-1, 0, 1, 2}

RECURSIVE HistoriesOfLength(_)
HistoriesOfLength(n) ==
    IF n = 0 THEN {<<>>}
    ELSE {Append(h, rms) : h \in HistoriesOfLength(n - 1), rms \in RmsInputs}

HistoryInputs == UNION {HistoriesOfLength(n) : n \in 1..MaxHistoryLength}

CheckerInputs ==
    {EstimationConvergenceChecker(maxIterations, minChange, minResidual, without) :
        maxIterations \in 0..MaxIterationsBound,
        minChange \in ResidualThresholdInputs, minResidual \in ResidualThresholdInputs,
        without \in WithoutImprovementInputs}

InitConvergence ==
    /\ Constructed(CHOOSE scenario \in ControlScenarios : TRUE)
    /\ \E checker \in CheckerInputs, iterations \in 0..(MaxIterationsBound + 1),
          history \in HistoryInputs :
          direct = [function |-> "isEstimationConverged", checker |-> checker,
                    numberOfIterations |-> iterations, rmsResidualHistory |-> history,
                    returned |-> FALSE, result |-> FALSE]

CallIsEstimationConverged ==
    /\ direct.function = "isEstimationConverged"
    /\ ~direct.returned
    /\ direct' = [direct EXCEPT
                    !.returned = TRUE,
                    !.result = IsEstimationConverged(direct.checker,
                                   direct.numberOfIterations, direct.rmsResidualHistory)]
    /\ UNCHANGED <<managerVars, inputVars, pc, loopVars, iterationVars, bookVars,
                   podOutput>>

NextConvergence == CallIsEstimationConverged

SpecConvergence == InitConvergence /\ [][NextConvergence]_vars

(***************************************************************************)
(* normalizeObservationMatrix called directly on small matrices of two     *)
(* columns.                                                                *)
(***************************************************************************)
MatrixEntries == {-2, -1, 0, 1, 2}

MatrixInputs ==
    UNION {[1..rows -> [1..2 -> MatrixEntries]] : rows \in 1..MaxMatrixRows}

InitNormalize ==
    /\ Constructed(CHOOSE scenario \in ControlScenarios : TRUE)
    /\ \E matrix \in MatrixInputs :
          direct = [function |-> "normalizeObservationMatrix",
                    observationMatrix |-> QMat(matrix),
                    returned |-> FALSE,
                    result |-> [normalizationTerms |-> QZeroVector(2),
                                observationMatrix |-> QMat(matrix)]]

CallNormalizeObservationMatrix ==
    /\ direct.function = "normalizeObservationMatrix"
    /\ ~direct.returned
    /\ direct' = [direct EXCEPT
                    !.returned = TRUE,
                    !.result = NormalizeObservationMatrix(direct.observationMatrix)]
    /\ UNCHANGED <<managerVars, inputVars, pc, loopVars, iterationVars, bookVars,
                   podOutput>>

NextNormalize == CallNormalizeObservationMatrix

SpecNormalize == InitNormalize /\ [][NextNormalize]_vars

(***************************************************************************)
(* resetParameterEstimate called directly, up to twice with the same       *)
(* arguments, on managers with and without a solver.                       *)
(***************************************************************************)
ResetScenarios ==
    {Scenario(QVec(parameters), construction, {1},
              PodInput(SingleGroupObservations,
                       ConstantWeights(SingleGroupObservations, 1),
                       ZeroInverseApriori(Len(parameters)),
                       ZeroVector(Len(parameters)),
                       <<FALSE, TRUE, FALSE, FALSE, FALSE, FALSE>>),
              EstimationConvergenceChecker(1, 0, 0, 2)) :
        parameters \in {<<0>>, <<0, 10>>},
        construction \in {<<FALSE, "null">>, <<TRUE, "singleArc">>,
                          <<TRUE, "multiArc">>}}

ResetValues == {1, 5}

InitReset ==
    /\ \E scenario \in ResetScenarios : Constructed(scenario)
    /\ \E values \in [1..ParameterVectorSize -> ResetValues], reintegrate \in BOOLEAN :
          direct = [function |-> "resetParameterEstimate",
                    newParameterEstimate |-> QVec(values),
                    reintegrateVariationalEquations |-> reintegrate,
                    calls |-> 0,
                    before |-> manager,
                    afterFirst |-> manager]

CallResetParameterEstimate ==
    /\ direct.function = "resetParameterEstimate"
    /\ direct.calls < 2
    /\ manager' = ResetParameterEstimate(manager, direct.newParameterEstimate,
                                         direct.reintegrateVariationalEquations)
    /\ environment' \in Environments(ParameterVectorSize)
    /\ direct' = [direct EXCEPT
                    !.calls = @ + 1,
                    !.before = manager,
                    !.afterFirst = IF direct.calls = 0 THEN manager' ELSE @]
    /\ UNCHANGED <<inputVars, pc, loopVars, iterationVars, bookVars, podOutput>>

NextReset == CallResetParameterEstimate

SpecReset == InitReset /\ [][NextReset]_vars

(***************************************************************************)
(* The correction of a first iteration over one parameter, computed once   *)
(* without and once with a priori information from the same partials,      *)
(* residuals and weights.                                                  *)
(***************************************************************************)
ColumnInputs == UNION {[1..rows -> [1..1 -> MatrixEntries]] : rows \in 1..MaxMatrixRows}

ResidualEntries == {-3, 4}

WeightInputs == {1, 2}

AprioriInputs == {1, 1000000}

InitCorrection ==
    /\ Constructed(CHOOSE scenario \in ControlScenarios : TRUE)
    /\ \E column \in ColumnInputs, weight \in WeightInputs, apriori \in AprioriInputs :
          \E residuals \in [1..Len(column) -> ResidualEntries] :
              direct = [function |-> "parameterAddition",
                        informationMatrix |-> QMat(column),
                        residuals |-> residuals,
                        weights |-> [i \in 1..Len(column) |-> weight],
                        inverseOfAprioriCovariance |-> <<<<apriori>>>>,
                        returned |-> FALSE,
                        withoutApriori |-> [singular |-> TRUE, parameterAddition |-> <<>>],
                        withApriori |-> [singular |-> TRUE, parameterAddition |-> <<>>]]

CallComputeParameterAddition ==
    /\ direct.function = "parameterAddition"
    /\ ~direct.returned
    /\ direct' = [direct EXCEPT
                    !.returned = TRUE,
                    !.withoutApriori =
                        ComputeParameterAddition(direct.informationMatrix, direct.residuals,
                                                 direct.weights, ZeroInverseApriori(1)),
                    !.withApriori =
                        ComputeParameterAddition(direct.informationMatrix, direct.residuals,
                                                 direct.weights,
                                                 direct.inverseOfAprioriCovariance)]
    /\ UNCHANGED <<managerVars, inputVars, pc, loopVars, iterationVars, bookVars,
                   podOutput>>

NextCorrection == CallComputeParameterAddition

SpecCorrection == InitCorrection /\ [][NextCorrection]_vars

(***************************************************************************)
(* Construction of a manager, called directly.                             *)
(***************************************************************************)
PropagatorSettingsInputs == {"null", "singleArc", "multiArc"}

ObservableTypeInputs == SUBSET {1, 2, 3}

InitConstruction ==
    /\ Constructed(CHOOSE scenario \in ControlScenarios : TRUE)
    /\ \E parameters \in {<<0>>, <<0, 10>>}, estimatesDynamics \in BOOLEAN,
          propagatorSettings \in PropagatorSettingsInputs,
          observableTypes \in ObservableTypeInputs :
          direct = [function |-> "initializeOrbitDeterminationManager",
                    parameters |-> QVec(parameters),
                    estimatesDynamics |-> estimatesDynamics,
                    propagatorSettings |-> propagatorSettings,
                    observableTypes |-> observableTypes,
                    returned |-> FALSE,
                    result |-> manager]

CallInitializeOrbitDeterminationManager ==
    /\ direct.function = "initializeOrbitDeterminationManager"
    /\ ~direct.returned
    /\ direct' = [direct EXCEPT
                    !.returned = TRUE,
                    !.result = InitializeOrbitDeterminationManager(
                                   direct.parameters, direct.estimatesDynamics,
                                   direct.propagatorSettings, direct.observableTypes)]
    /\ UNCHANGED <<managerVars, inputVars, pc, loopVars, iterationVars, bookVars,
                   podOutput>>

NextConstruction == CallInitializeOrbitDeterminationManager

SpecConstruction == InitConstruction /\ [][NextConstruction]_vars

(***************************************************************************)
(* Properties.                                                             *)
(***************************************************************************)
\* the first index at which a history takes its least value
EarliestMinimum(history) ==
    CHOOSE k \in 1..Len(history) :
        /\ \A j \in 1..Len(history) : history[k] <= history[j]
        /\ \A j \in 1..(k - 1) : history[j] > history[k]

\* C1: the RMS residual of the returned result is less than or equal to the RMS
\* residual of every iteration of the run (every entry of the RMS history).
ReturnedRmsIsLowest ==
    pc = "done" =>
        \A i \in 1..Len(rmsResidualHistory) :
            podOutput.residualStandardDeviation <= rmsResidualHistory[i]

\* a run has returned whose last iteration was worse than an earlier one
ReturnedAfterWorseIteration ==
    /\ pc = "done"
    /\ Len(rmsResidualHistory) >= 2
    /\ rmsResidualHistory[Len(rmsResidualHistory)] > podOutput.residualStandardDeviation

\* C2: the best snapshot (parameter vector, residuals, weights, normalization
\* terms, inverse normalized covariance, RMS) is replaced as a whole exactly when
\* an iteration's RMS is strictly lower than the best so far: after every
\* iteration, and in the returned result, all of these pieces are those of the
\* earliest iteration that attains the least RMS.
BestIsEarliestMinimum ==
    (Len(iterationLog) >= 1 /\ Len(iterationLog) = Len(rmsResidualHistory)) =>
        LET earliest == iterationLog[EarliestMinimum(rmsResidualHistory)]
        IN /\ best.bestParameterEstimate = earliest.parameterEstimate
           /\ best.bestResiduals = earliest.residuals
           /\ best.bestWeightsMatrixDiagonal = earliest.weightsMatrixDiagonal
           /\ best.bestTransformationData = earliest.transformationData
           /\ best.bestInverseNormalizedCovarianceMatrix
                = earliest.inverseNormalizedCovarianceMatrix
           /\ best.bestResidual = earliest.residualRms
           /\ pc = "done" =>
                /\ podOutput.parameterEstimate = earliest.parameterEstimate
                /\ podOutput.residuals = earliest.residuals
                /\ podOutput.weightsMatrixDiagonal = earliest.weightsMatrixDiagonal
                /\ podOutput.transformationData = earliest.transformationData
                /\ podOutput.inverseNormalizedCovarianceMatrix
                     = earliest.inverseNormalizedCovarianceMatrix
                /\ podOutput.residualStandardDeviation = earliest.residualRms

\* a run has returned in which a later iteration reached the least RMS again with
\* other normalization terms, and another iteration was worse
ReturnedAfterTiedIteration ==
    /\ pc = "done"
    /\ \E j \in 1..Len(rmsResidualHistory) :
          /\ j > EarliestMinimum(rmsResidualHistory)
          /\ rmsResidualHistory[j] = podOutput.residualStandardDeviation
          /\ iterationLog[j].transformationData # podOutput.transformationData
    /\ \E j \in 1..Len(rmsResidualHistory) :
          rmsResidualHistory[j] > podOutput.residualStandardDeviation

\* C3: the loop body runs at least once for every convergence configuration,
\* also for maximumNumberOfIterations = 0, and the convergence checker is first
\* consulted after one full iteration (residuals, solve, update, RMS).
BodyRunsBeforeFirstCheck ==
    /\ pc = "check" =>
          /\ Len(rmsResidualHistory) = numberOfIterations + 1
          /\ Len(iterationLog) = numberOfIterations + 1
          /\ Len(parameterAddition) = ParameterVectorSize
          /\ Len(residualsAndPartials.first) = TotalNumberOfObservations
    /\ pc = "done" => numberOfIterations >= 1 /\ Len(rmsResidualHistory) >= 1

\* a run with maximumNumberOfIterations = 0 has returned after one iteration
ReturnedWithZeroMaximum ==
    /\ pc = "done"
    /\ convergenceChecker.maximumNumberOfIterations_ = 0
    /\ numberOfIterations = 1

\* C4 as stated: the number of iterations executed is at most
\* maximumNumberOfIterations.
IterationsWithinMaximum ==
    pc = "done" => numberOfIterations <= convergenceChecker.maximumNumberOfIterations_

\* C4, amended: the number of iterations executed is at most
\* maximumNumberOfIterations, or one when maximumNumberOfIterations is zero.
IterationsWithinMaximumOrOne ==
    numberOfIterations <= Max(1, convergenceChecker.maximumNumberOfIterations_)

\* a run has returned after as many iterations as the maximum allows, more than one
ReturnedAtMaximum ==
    /\ pc = "done"
    /\ numberOfIterations = convergenceChecker.maximumNumberOfIterations_
    /\ numberOfIterations >= 2

\* where estimateParameters has ended: returned, failed with an exception, or
\* stopped by a crash
Ended == pc \in {"done", "failed", "crashed", "constructionFailed"}

\* C5: provided every call made by the loop returns, the loop terminates whatever
\* the sequence of RMS residuals is.
EstimationTerminates == <>Ended

\* a run has returned whose RMS went up and then down again
ReturnedAfterOscillation ==
    /\ pc = "done"
    /\ Len(rmsResidualHistory) = 3
    /\ rmsResidualHistory[1] < rmsResidualHistory[2]
    /\ rmsResidualHistory[3] < rmsResidualHistory[2]

\* the values of minimumResidualChange a single-entry history is tried with
ResidualChangeInputs == {0, 2, 1000}

\* C6: isEstimationConverged returns true when the iteration count has reached
\* maximumNumberOfIterations, when the newest RMS is below minimumResidual, and
\* when the history has at least two entries and the last two differ by less than
\* minimumResidualChange; with a single entry the residual-change rule is not
\* looked at, so the result does not depend on minimumResidualChange; with
\* maximumNumberOfIterations = 1 the first check (count 1) returns true.
ConvergenceRulesStop ==
    direct.returned =>
        LET checker == direct.checker
            iterations == direct.numberOfIterations
            history == direct.rmsResidualHistory
            last == Len(history)
        IN /\ iterations >= checker.maximumNumberOfIterations_ => direct.result
           /\ history[last] < checker.minimumResidual_ => direct.result
           /\ (last >= 2
               /\ Abs(history[last] - history[last - 1]) < checker.minimumResidualChange_)
                 => direct.result
           /\ last = 1 =>
                \A change \in ResidualChangeInputs :
                    IsEstimationConverged(
                        [checker EXCEPT !.minimumResidualChange_ = change],
                        iterations, history) = direct.result
           /\ (checker.maximumNumberOfIterations_ = 1 /\ iterations = 1) => direct.result

\* a call has returned true on the residual-change rule alone
ConvergedOnResidualChangeAlone ==
    /\ direct.returned
    /\ direct.result
    /\ direct.numberOfIterations < direct.checker.maximumNumberOfIterations_
    /\ Len(direct.rmsResidualHistory) >= 2
    /\ direct.rmsResidualHistory[Len(direct.rmsResidualHistory)]
         >= direct.checker.minimumResidual_
    /\ direct.rmsResidualHistory[Len(direct.rmsResidualHistory)]
         # direct.rmsResidualHistory[Len(direct.rmsResidualHistory) - 1]

\* C7 as stated: isEstimationConverged returns true when the number of
\* iterations since the lowest RMS of the history was seen is greater than
\* numberOfIterationsWithoutImprovement.
StopsWithoutImprovement ==
    direct.returned =>
        LET history == direct.rmsResidualHistory
            sinceBest == Len(history) - EarliestMinimum(history)
        IN (/\ direct.checker.numberOfIterationsWithoutImprovement_ >= 0
            /\ sinceBest > direct.checker.numberOfIterationsWithoutImprovement_)
               => direct.result

\* the number of rows of the groups before group number g + 1 in map order
RowOffset(g) == SumObservations(podInput.observationsAndTimes, SubSeq(GroupOrder, 1, g))

\* what group number g contributes: observed minus computed, and the partials
\* its observation manager returns
GroupRows(g) ==
    LET data == podInput.observationsAndTimes[GroupOrder[g]]
        computed == ComputeObservationsWithPartials(environment, data.times,
                                                    ParameterVectorSize)
    IN [residuals |-> [i \in 1..Len(data.observations) |->
                          data.observations[i] - computed.first[i]],
        partials |-> QMat(computed.second)]

\* C8 as stated: for every observation map and weights map, the vector of
\* getConcatenatedWeightsVector has as many elements as there are observations,
\* and its element i is the weight that the weights map holds for the (observable
\* type, link ends, observation index) of residual i and Jacobian row i.
WeightsAlignedWithRows ==
    pc = "solve" =>
        LET weights == GetConcatenatedWeightsVector(podInput.weightsMatrixDiagonals)
        IN /\ Len(weights) = Len(residualsAndPartials.first)
           /\ \A g \in 1..Len(GroupOrder) :
                \A i \in 1..Len(podInput.observationsAndTimes[GroupOrder[g]].observations) :
                    /\ GroupOrder[g] \in DOMAIN podInput.weightsMatrixDiagonals
                    /\ i <= Len(podInput.weightsMatrixDiagonals[GroupOrder[g]])
                    /\ RowOffset(g - 1) + i <= Len(weights)
                    /\ weights[RowOffset(g - 1) + i]
                         = podInput.weightsMatrixDiagonals[GroupOrder[g]][i]

\* C9: the groups are visited in map order with a row offset that starts at 0 and
\* grows by each group's observation count; each group writes observed minus
\* computed and its partials to the rows [offset, offset + n), the rows not yet
\* reached are untouched, and after the last group the offset is the total of
\* getNumberOfObservationsPerObservable.
GroupsFillContiguousRows ==
    pc \in {"group", "normalize"} =>
        /\ startIndex = RowOffset(groupCursor)
        /\ \A g \in 1..groupCursor :
             \A i \in 1..Len(GroupRows(g).residuals) :
                 /\ residualsAndPartials.first[RowOffset(g - 1) + i]
                      = GroupRows(g).residuals[i]
                 /\ residualsAndPartials.second[RowOffset(g - 1) + i]
                      = GroupRows(g).partials[i]
        /\ \A row \in (startIndex + 1)..TotalNumberOfObservations :
             /\ residualsAndPartials.first[row] = 0
             /\ residualsAndPartials.second[row] = QZeroVector(ParameterVectorSize)
        /\ pc = "normalize" =>
             /\ groupCursor = Len(GroupOrder)
             /\ startIndex = TotalNumberOfObservations

\* three groups of different sizes have been written
ThreeGroupsWritten ==
    /\ pc = "normalize"
    /\ Len(GroupOrder) = 3
    /\ startIndex = 4
    /\ residualsAndPartials.first[4] # 0
    /\ residualsAndPartials.second[4] # QZeroVector(ParameterVectorSize)

\* the partials of all groups, before normalization
UnnormalizedPartials ==
    LET rows[g \in 0..Len(GroupOrder)] ==
            IF g = 0 THEN <<>> ELSE rows[g - 1] \o GroupRows(g).partials
    IN rows[Len(GroupOrder)]

\* observations [2.1, 3.9, 6.2] at [1, 2, 3], model a * x with a = 0, unit
\* weights, no a priori information, first iteration
ScenarioA ==
    /\ podInput.observationsAndTimes = SingleGroupObservations
    /\ podInput.weightsMatrixDiagonals = ConstantWeights(SingleGroupObservations, 1)
    /\ podInput.inverseOfAprioriCovariance = ZeroInverseApriori(1)
    /\ environment = [slope |-> 0, sensitivity |-> <<1>>]
    /\ rmsResidualHistory = <<>>

\* C10 as stated: the correction of one iteration equals the solution of the
\* unnormalized normal equations (J^T W J + P0^-1) dx = J^T W r, whenever these
\* have one; in scenario A the first correction is 28.5 / 14.
CorrectionSolvesUnnormalizedEquations ==
    (/\ pc = "rms"
     /\ Len(GetConcatenatedWeightsVector(podInput.weightsMatrixDiagonals))
          = Len(residualsAndPartials.first)) =>
        LET weights == GetConcatenatedWeightsVector(podInput.weightsMatrixDiagonals)
            normal == NormalEquationsMatrix(UnnormalizedPartials, weights,
                                            QMat(podInput.inverseOfAprioriCovariance))
            rhs == RightHandSide(UnnormalizedPartials, weights,
                                 residualsAndPartials.first, ParameterVectorSize)
        IN /\ QDet(normal) # QInt(0) => parameterAddition = SolveLinearSystem(normal, rhs)
           /\ ScenarioA => parameterAddition = <<<<285, 14>>>>

(***************************************************************************)
(* Normalization of the partials.                                          *)
(***************************************************************************)
IsZeroColumn(column) == \A r \in 1..Len(column) : column[r] = QInt(0)

QOne == QInt(1)

\* C11: for every column of the matrix that is not identically zero,
\* normalizeObservationMatrix returns the column's minimum when the absolute
\* value of the minimum exceeds the maximum and the maximum otherwise; that
\* term is an entry of the column of largest absolute value, every entry of
\* the column is divided by it, every divided entry lies in [-1, 1], and the
\* entry that was returned becomes exactly 1.
NormalizedColumnsWithinUnit ==
    (direct.function = "normalizeObservationMatrix" /\ direct.returned) =>
        \A i \in 1..2 :
            LET column == Column(direct.observationMatrix, i)
                after == Column(direct.result.observationMatrix, i)
                term == direct.result.normalizationTerms[i]
                rows == 1..Len(column)
            IN  ~IsZeroColumn(column) =>
                    /\ term = (IF ~QLessEq(QAbs(MinCoeff(column)), MaxCoeff(column))
                               THEN MinCoeff(column) ELSE MaxCoeff(column))
                    /\ \E r \in rows : column[r] = term
                    /\ \A r \in rows : QLessEq(QAbs(column[r]), QAbs(term))
                    /\ \A r \in rows : after[r] = QDiv(column[r], term)
                    /\ \A r \in rows : /\ QLessEq(QNeg(QOne), after[r])
                                       /\ QLessEq(after[r], QOne)
                    /\ \A r \in rows : column[r] = term => after[r] = QOne

\* a column whose entry of largest absolute value is negative was normalized
NegativeScaleReturned ==
    /\ direct.function = "normalizeObservationMatrix"
    /\ direct.returned
    /\ Len(direct.observationMatrix) = 2
    /\ Column(direct.observationMatrix, 1) = <<QInt(-2), QInt(1)>>
    /\ direct.result.normalizationTerms[1] = QInt(-2)
    /\ Column(direct.result.observationMatrix, 1) = <<QOne, <<-1, 2>>>>

\* C12: on a column that is identically zero normalizeObservationMatrix
\* leaves the column as it was and returns no zero normalization term
\* (statement of the specification; the code does not keep it)
ZeroColumnLeftAlone ==
    (direct.function = "normalizeObservationMatrix" /\ direct.returned) =>
        \A i \in 1..2 :
            LET column == Column(direct.observationMatrix, i)
            IN  IsZeroColumn(column) =>
                    /\ direct.result.normalizationTerms[i] # QInt(0)
                    /\ Column(direct.result.observationMatrix, i) = column

(***************************************************************************)
(* The parameter estimate through the iterations.                          *)
(***************************************************************************)
\* C13: the estimate used before the first iteration is the nominal parameter
\* vector plus the initial deviation, componentwise; the only other step that
\* changes the estimate is the update of an iteration, which sets it to the
\* estimate that entered the iteration plus the correction divided by the
\* normalization terms, componentwise.
EstimateIsAdditive ==
    [][/\ pc = "idle" =>
              \A j \in 1..ParameterVectorSize :
                  newParameterEstimate'[j] =
                      QAdd(manager'.currentParameterEstimate_[j],
                           QInt(podInput.initialParameterDeviationEstimate[j]))
       /\ pc = "update" =>
              \A j \in 1..ParameterVectorSize :
                  /\ parameterAddition'[j] =
                         QDiv(leastSquaresOutput.first[j], transformationData[j])
                  /\ newParameterEstimate'[j] =
                         QAdd(newParameterEstimate[j], parameterAddition'[j])
       /\ pc \notin {"idle", "update"} =>
              newParameterEstimate' = newParameterEstimate]_vars

\* the second iteration of a run over two parameters added a finite non-zero
\* correction to the estimate the first iteration left
SecondIterationUpdated ==
    /\ pc = "rms"
    /\ numberOfIterations = 1
    /\ ParameterVectorSize = 2
    /\ Len(iterationLog) = 1
    /\ \E j \in 1..2 : QIsFinite(parameterAddition[j]) /\ parameterAddition[j][1] # 0
    /\ \A j \in 1..2 :
           /\ QIsFinite(newParameterEstimate[j])
           /\ newParameterEstimate[j] =
                  QAdd(iterationLog[1].parameterEstimate[j], parameterAddition[j])

(***************************************************************************)
(* Resets of the parameter estimate.                                       *)
(***************************************************************************)
\* the iterations whose reset step has been passed
IterationsStarted ==
    IF pc \in {"idle", "constructionFailed"} THEN {}
    ELSE IF pc \in {"reset", "done"} THEN 0..(numberOfIterations - 1)
    ELSE 0..numberOfIterations

\* C14: the iterations that began with a call of resetParameterEstimate are
\* exactly those with index above 0, and iteration 0 when
\* reintegrateEquationsOnFirstIteration is set; each call was given the
\* estimate entering its iteration and the reintegrateVariationalEquations
\* flag of the input; a run that returned after n iterations made n calls
\* when reintegrateEquationsOnFirstIteration is set and n - 1 otherwise.
ResetsFollowIterations ==
    LET first == podInput.reintegrateEquationsOnFirstIteration
        skipped == IF first THEN 0 ELSE 1
        due == {k \in IterationsStarted : k > 0 \/ first}
    IN  /\ Len(resetLog) = Cardinality(due)
        /\ {resetLog[i].iteration : i \in 1..Len(resetLog)} = due
        /\ \A i \in 1..Len(resetLog) :
               LET call == resetLog[i]
               IN  /\ call.iteration = i - 1 + skipped
                   /\ call.reintegrateVariationalEquations =
                          podInput.reintegrateVariationalEquations
                   /\ IF call.iteration = 0
                      THEN \A j \in 1..ParameterVectorSize :
                               call.newParameterEstimate[j] =
                                   QAdd(call.currentParameterEstimate_[j],
                                        QInt(podInput.initialParameterDeviationEstimate[j]))
                      ELSE call.newParameterEstimate =
                               iterationLog[call.iteration].parameterEstimate
        /\ pc = "done" => Len(resetLog) = numberOfIterations - skipped

\* a run of two iterations without reintegration on the first made one reset
TwoIterationsOneReset ==
    /\ pc = "done"
    /\ numberOfIterations = 2
    /\ ~podInput.reintegrateEquationsOnFirstIteration
    /\ Len(resetLog) = 1
    /\ resetLog[1].iteration = 1

\* C15: a call of resetParameterEstimate goes to the variational equations
\* solver, which propagates again, exactly when integrateAndEstimateOrbit_ is
\* set; otherwise it only overwrites the values of the parameter container
\* and nothing is propagated; in both cases the cached current estimate is
\* the vector that was supplied.
ResetDelegatesWhenEstimatingOrbit ==
    (direct.function = "resetParameterEstimate" /\ direct.calls >= 1) =>
        LET before == direct.before
            solver == manager.variationalEquationsSolver_
            solverBefore == before.variationalEquationsSolver_
        IN  /\ manager.currentParameterEstimate_ = direct.newParameterEstimate
            /\ manager.integrateAndEstimateOrbit_ = before.integrateAndEstimateOrbit_
            /\ IF before.integrateAndEstimateOrbit_
               THEN /\ solver.parameterEstimate = direct.newParameterEstimate
                    /\ solver.propagations = solverBefore.propagations + 1
                    /\ solver.variationalPropagations =
                           solverBefore.variationalPropagations
                           + (IF direct.reintegrateVariationalEquations THEN 1 ELSE 0)
               ELSE /\ manager.parametersToEstimate_ = direct.newParameterEstimate
                    /\ solver = solverBefore

\* a manager without a solver took new values for two parameters
ResetWithoutSolver ==
    /\ direct.function = "resetParameterEstimate"
    /\ direct.calls = 1
    /\ ~manager.integrateAndEstimateOrbit_
    /\ manager.variationalEquationsSolver_ = NullSolver
    /\ direct.before.parametersToEstimate_ = QVec(<<0, 10>>)
    /\ manager.parametersToEstimate_ = QVec(<<5, 1>>)
    /\ manager.currentParameterEstimate_ = QVec(<<5, 1>>)

\* C16: after a second call of resetParameterEstimate with the same vector
\* the cached current estimate is what it was after the first call.
SecondResetKeepsEstimate ==
    (direct.function = "resetParameterEstimate" /\ direct.calls = 2) =>
        GetCurrentParameterEstimate(manager) =
            GetCurrentParameterEstimate(direct.afterFirst)

\* a manager with a solver was reset twice with the same vector, and the
\* second call propagated again
ResetTwiceWithSolver ==
    /\ direct.function = "resetParameterEstimate"
    /\ direct.calls = 2
    /\ manager.integrateAndEstimateOrbit_
    /\ direct.newParameterEstimate = QVec(<<1, 5>>)
    /\ manager.variationalEquationsSolver_.propagations =
           direct.afterFirst.variationalEquationsSolver_.propagations + 1
    /\ GetCurrentParameterEstimate(manager) = QVec(<<1, 5>>)
    /\ GetCurrentParameterEstimate(direct.afterFirst) = QVec(<<1, 5>>)

(***************************************************************************)
(* Observable types without a manager, groups without weights.             *)
(***************************************************************************)
\* C17: when the assembly of residuals and partials comes to a group whose
\* observable type has no registered observation manager, the request ends
\* with an error raised and the manager object, its map of observation
\* managers included, is what it was before
\* (statement of the specification; the code does not keep it)
MissingManagerRaisesError ==
    [][(/\ pc = "group"
        /\ GroupOrder[groupCursor + 1][1] \notin DOMAIN manager.observationManagers_)
       => (/\ pc' = "failed"
           /\ manager'.observationManagers_ = manager.observationManagers_)]_vars

\* C18: the solver is handed weights only when every group of the
\* observations has its weights in the weights map, type and link ends alike;
\* otherwise the run stops before the adjustment
\* (statement of the specification; the code does not keep it)
MissingWeightsStopRun ==
    pc \in {"update", "rms", "best", "check", "done"} =>
        \A key \in DOMAIN podInput.observationsAndTimes :
            key \in DOMAIN podInput.weightsMatrixDiagonals

(***************************************************************************)
(* Construction.                                                           *)
(***************************************************************************)
\* C19: construction with single-arc or multi-arc propagator settings and no
\* initial dynamical state among the parameters throws, and no observation
\* manager has been created when it does; construction with null propagator
\* settings and no initial dynamical state succeeds, creates no solver and
\* creates the observation managers.
ConstructionChecksSettings ==
    (/\ direct.function = "initializeOrbitDeterminationManager"
     /\ direct.returned
     /\ ~direct.estimatesDynamics) =>
        IF direct.propagatorSettings # "null"
        THEN /\ direct.result.thrown
             /\ DOMAIN direct.result.observationManagers_ = {}
        ELSE /\ ~direct.result.thrown
             /\ ~direct.result.integrateAndEstimateOrbit_
             /\ ~direct.result.variationalEquationsSolver_.set
             /\ DOMAIN direct.result.observationManagers_ = direct.observableTypes

\* construction with multi-arc settings and two observable types threw
MultiArcConstructionThrew ==
    /\ direct.function = "initializeOrbitDeterminationManager"
    /\ direct.returned
    /\ ~direct.estimatesDynamics
    /\ direct.propagatorSettings = "multiArc"
    /\ direct.observableTypes = {1, 2}
    /\ direct.result.thrown
    /\ DOMAIN direct.result.observationManagers_ = {}

(***************************************************************************)
(* The bookkeeping flags.                                                  *)
(***************************************************************************)
\* the part of the best* variables that the claim about the flags names
ReturnedValues(snapshot) ==
    <<snapshot.bestParameterEstimate, snapshot.bestResiduals,
      snapshot.bestWeightsMatrixDiagonal, snapshot.bestTransformationData,
      snapshot.bestInverseNormalizedCovarianceMatrix, snapshot.bestResidual>>

\* C20: the steps that read saveStateHistoryForEachIteration,
\* saveResidualsAndParametersFromEachIteration, saveInformationMatrix or
\* printOutput go on to the same next step and leave the same estimate and
\* the same best parameter vector, residuals, weights, normalization terms,
\* inverse normalized covariance and RMS whatever the flags are, so that two
\* runs that differ only in these flags execute the same iterations and
\* return the same values
\* (statement of the specification; the code does not keep it)
BookkeepingFlagsAreInert ==
    [][/\ pc = "reset" =>
              /\ pc' = "calculate"
              /\ oldParameterEstimate' = newParameterEstimate
       /\ pc = "update" =>
              /\ pc' = "rms"
              /\ oldParameterEstimate' = newParameterEstimate'
       /\ pc = "best" =>
              /\ pc' = "check"
              /\ ReturnedValues(best') =
                     IF residualRms < best.bestResidual
                     THEN <<oldParameterEstimate, residualsAndPartials.first,
                            GetConcatenatedWeightsVector(podInput.weightsMatrixDiagonals),
                            transformationData, leastSquaresOutput.second, residualRms>>
                     ELSE ReturnedValues(best)]_vars

(***************************************************************************)
(* A priori information.                                                   *)
(***************************************************************************)
\* a correction of one parameter that is a finite number other than zero
IsNonzeroCorrection(output) ==
    /\ ~output.singular
    /\ QIsFinite(output.parameterAddition[1])
    /\ output.parameterAddition[1][1] # 0

\* C21: over one parameter, with the same partials, residuals and positive
\* weights, when the first correction without a priori information is not
\* zero, the first correction with a strictly positive a priori inverse
\* covariance exists and is strictly smaller in magnitude.
AprioriShrinksCorrection ==
    (/\ direct.function = "parameterAddition"
     /\ direct.returned
     /\ IsNonzeroCorrection(direct.withoutApriori)) =>
        /\ ~direct.withApriori.singular
        /\ QIsFinite(direct.withApriori.parameterAddition[1])
        /\ QLessEq(QAbs(direct.withApriori.parameterAddition[1]),
                   QAbs(direct.withoutApriori.parameterAddition[1]))
        /\ QAbs(direct.withApriori.parameterAddition[1]) #
               QAbs(direct.withoutApriori.parameterAddition[1])

\* an inverse covariance of 1e6 shrank a correction that stays other than zero
LargeAprioriShrankCorrection ==
    /\ direct.function = "parameterAddition"
    /\ direct.returned
    /\ direct.inverseOfAprioriCovariance = <<<<1000000>>>>
    /\ Len(direct.informationMatrix) = 2
    /\ IsNonzeroCorrection(direct.withoutApriori)
    /\ IsNonzeroCorrection(direct.withApriori)
    /\ ~QLessEq(QAbs(direct.withoutApriori.parameterAddition[1]),
                QAbs(direct.withApriori.parameterAddition[1]))

(***************************************************************************)
(* Order of the steps of an iteration.                                     *)
(***************************************************************************)
\* the step that follows each step of the loop body
FollowingSteps(step) ==
    CASE step = "reset" -> {"calculate"}
      [] step = "calculate" -> {"group", "normalize"}
      [] step = "group" -> {"group", "normalize"}
      [] step = "normalize" -> {"solve"}
      [] step = "solve" -> {"update"}
      [] step = "update" -> {"rms"}
      [] step = "rms" -> {"best"}
      [] step = "best" -> {"check"}
      [] step = "check" -> {"reset", "done"}
      [] OTHER -> {"reset"}

\* C22: an iteration goes through reset, assembly of residuals and partials,
\* normalization of the columns and then of the a priori inverse covariance
\* by the terms just computed, adjustment, update, RMS, comparison with the
\* best, count and convergence test, in this order, unless it stops the run
\* on the way; the RMS is computed and appended by the RMS step and by no
\* other, the count is incremented by the last step and by no other, and the
\* convergence test is given the incremented count and a history whose last
\* entry is the RMS of this iteration.
StepsInOrder ==
    [][/\ pc' \in FollowingSteps(pc) \cup {"crashed", "failed"}
       /\ pc = "normalize" =>
              normalizedInverseAprioriCovarianceMatrix' =
                  NormalizeInverseApriori(podInput.inverseOfAprioriCovariance,
                                          transformationData')
       /\ IF pc = "rms"
          THEN /\ residualRms' = GetVectorEntryRootMeanSquare(residualsAndPartials.first)
               /\ rmsResidualHistory' = Append(rmsResidualHistory, residualRms')
          ELSE pc # "idle" => rmsResidualHistory' = rmsResidualHistory
       /\ IF pc = "check"
          THEN /\ numberOfIterations' = numberOfIterations + 1
               /\ Len(rmsResidualHistory) = numberOfIterations'
               /\ rmsResidualHistory[Len(rmsResidualHistory)] = residualRms
               /\ residualRms = GetVectorEntryRootMeanSquare(residualsAndPartials.first)
               /\ pc' = IF IsEstimationConverged(convergenceChecker, numberOfIterations',
                                                 rmsResidualHistory)
                        THEN "done" ELSE "reset"
          ELSE pc # "idle" => numberOfIterations' = numberOfIterations]_vars

\* the convergence test of a second iteration is about to be made
SecondIterationAtCheck ==
    /\ pc = "check"
    /\ numberOfIterations = 1
    /\ Len(rmsResidualHistory) = 2
    /\ Len(iterationLog) = 2
    /\ rmsResidualHistory[2] = residualRms
    /\ rmsResidualHistory[1] # rmsResidualHistory[2]

(***************************************************************************)
(* The histories of residuals and parameters.                              *)
(***************************************************************************)
\* C23: with saveResidualsAndParametersFromEachIteration the result of a run
\* of n iterations holds n residual vectors, the k-th being the residuals of
\* iteration k, and n + 1 parameter vectors: the estimate the first
\* iteration started from, then the updated estimate of each iteration in
\* order; without the flag both histories of the result are empty.
HistoriesOfEveryIteration ==
    /\ [](pc = "done" =>
            IF podInput.saveResidualsAndParametersFromEachIteration
            THEN /\ Len(podOutput.residualHistory) = numberOfIterations
                 /\ Len(podOutput.parameterHistory) = numberOfIterations + 1
                 /\ \A k \in 1..numberOfIterations :
                        /\ podOutput.residualHistory[k] = iterationLog[k].residuals
                        /\ podOutput.parameterHistory[k + 1] =
                               iterationLog[k].parameterEstimate
            ELSE /\ podOutput.residualHistory = <<>>
                 /\ podOutput.parameterHistory = <<>>)
    /\ [][/\ (/\ pc = "update"
               /\ numberOfIterations = 0
               /\ podInput.saveResidualsAndParametersFromEachIteration)
              => parameterHistory'[1] = newParameterEstimate
          /\ (pc # "idle" /\ parameterHistory # <<>>)
              => (parameterHistory' # <<>> /\ parameterHistory'[1] = parameterHistory[1])
         ]_vars

\* a run of two iterations returned two residual vectors and three
\* parameter vectors
TwoIterationsOfHistory ==
    /\ pc = "done"
    /\ numberOfIterations = 2
    /\ podInput.saveResidualsAndParametersFromEachIteration
    /\ Len(podOutput.residualHistory) = 2
    /\ Len(podOutput.parameterHistory) = 3
    /\ podOutput.parameterHistory[2] # podOutput.parameterHistory[1]
    /\ podOutput.residualHistory[2] # podOutput.residualHistory[1]

(***************************************************************************)
(* The estimate the model holds while residuals and partials are computed. *)
(***************************************************************************)
\* residuals and partials of the current iteration are being computed
Assembling == pc \in {"calculate", "group"}

\* C24 as stated: while residuals and partials are computed, the cached
\* current estimate is the estimate the correction of the iteration will be
\* added to, in every iteration and for both values of
\* reintegrateEquationsOnFirstIteration
CachedEstimateIsEntering ==
    Assembling =>
        /\ manager.currentParameterEstimate_ = oldParameterEstimate
        /\ numberOfIterations >= 1 =>
               oldParameterEstimate = iterationLog[numberOfIterations].parameterEstimate

\* C24, amended: while residuals and partials are computed, the cached
\* current estimate is the estimate the correction of the iteration will be
\* added to in every iteration after the first, and in the first when
\* reintegrateEquationsOnFirstIteration is set; in a first iteration without
\* the flag it is the nominal estimate, and the correction will be added to
\* the nominal estimate plus the initial deviation.
CachedEstimateIsEnteringAfterReset ==
    Assembling =>
        IF numberOfIterations >= 1
        THEN /\ manager.currentParameterEstimate_ = oldParameterEstimate
             /\ oldParameterEstimate = iterationLog[numberOfIterations].parameterEstimate
        ELSE IF podInput.reintegrateEquationsOnFirstIteration
        THEN manager.currentParameterEstimate_ = oldParameterEstimate
        ELSE /\ manager.currentParameterEstimate_ = manager.parametersToEstimate_
             /\ resetLog = <<>>
             /\ \A j \in 1..ParameterVectorSize :
                    oldParameterEstimate[j] =
                        QAdd(manager.currentParameterEstimate_[j],
                             QInt(podInput.initialParameterDeviationEstimate[j]))

\* a first iteration without reintegration computes its residuals while the
\* cached estimate lacks the initial deviation
FirstAssemblyAtNominal ==
    /\ pc = "group"
    /\ numberOfIterations = 0
    /\ ~podInput.reintegrateEquationsOnFirstIteration
    /\ podInput.initialParameterDeviationEstimate = <<5>>
    /\ manager.currentParameterEstimate_ = QVec(<<0>>)
    /\ oldParameterEstimate = QVec(<<5>>)

(***************************************************************************)
(* What the returned parameter vector is.                                  *)
(***************************************************************************)
\* C25: the returned parameter vector is the estimate the best iteration
\* computed its residuals at plus the correction of that iteration,
\* componentwise; the returned residuals and RMS are the ones computed at
\* the estimate before that correction.
ReturnedEstimateIsPostCorrection ==
    pc = "done" =>
        LET bestIteration == EarliestMinimum(rmsResidualHistory)
            assembly == assemblyLog[bestIteration]
            produced == iterationLog[bestIteration]
        IN  /\ Len(assemblyLog) = numberOfIterations
            /\ Len(iterationLog) = numberOfIterations
            /\ \A j \in 1..ParameterVectorSize :
                   podOutput.parameterEstimate[j] =
                       QAdd(assembly.oldParameterEstimate[j], produced.parameterAddition[j])
            /\ podOutput.residuals = assembly.residuals
            /\ podOutput.residualStandardDeviation =
                   GetVectorEntryRootMeanSquare(assembly.residuals)

\* a run returned an estimate that differs by a finite correction from the
\* estimate its residuals were computed at
ReturnedEstimateMoved ==
    /\ pc = "done"
    /\ numberOfIterations = 2
    /\ EarliestMinimum(rmsResidualHistory) = 2
    /\ \A j \in 1..ParameterVectorSize : QIsFinite(podOutput.parameterEstimate[j])
    /\ podOutput.parameterEstimate # assemblyLog[2].oldParameterEstimate
    /\ podOutput.residuals = assemblyLog[2].residuals

CheckerGivenOneRmsPerIteration ==
    /\ pc = "check" =>
           /\ Len(rmsResidualHistory) = numberOfIterations + 1
           /\ numberOfIterations + 1 >= 1
    /\ pc = "done" =>
           /\ Len(rmsResidualHistory) = numberOfIterations
           /\ numberOfIterations >= 1
    /\ (pc = "reset" /\ numberOfIterations > 0) =>
           Len(rmsResidualHistory) = numberOfIterations

\* a run returned from its first call of the checker, made with one entry
\* and a minimum residual change that is not zero
ReturnedFromFirstCheck ==
    /\ pc = "done"
    /\ numberOfIterations = 1
    /\ Len(rmsResidualHistory) = 1
    /\ convergenceChecker.minimumResidualChange_ = 1

(***************************************************************************)
(* Use of the variational equations solver.                                *)
(***************************************************************************)
\* C29: in a manager whose construction created no solver, no step of
\* estimateParameters touches the solver: the pointer stays as it is, and
\* the head of an iteration goes on to the assembly of residuals whatever
\* the flags of the input are
\* (statement of the specification; the code does not keep it)
UnsetSolverNeverUsed ==
    [][~manager.variationalEquationsSolver_.set =>
           /\ manager'.variationalEquationsSolver_ = manager.variationalEquationsSolver_
           /\ pc = "reset" => pc' = "calculate"]_vars

(***************************************************************************)
(* JsonInterface/Propagation/acceleration.cpp: acceleration settings to    *)
(* and from a JSON object.  A JSON object is a function from its keys to   *)
(* their values; the null JSON value is the function of no key.  A         *)
(* settings object is a record of its dynamic class, its accelerationType_ *)
(* and the members of its class that to_json reads; a null shared pointer  *)
(* is NullAccelerationSettings.                                            *)
(***************************************************************************)
NullJson == [key \in {} |-> TRUE]

NullAccelerationSettings == [class |-> "null"]

\* the enumerators of AvailableAcceleration named by to_json and from_json
AvailableAcceleration ==
    {"undefined_acceleration", "point_mass_gravity", "aerodynamic",
     "cannon_ball_radiation_pressure", "spherical_harmonic_gravity",
     "mutual_spherical_harmonic_gravity", "third_body_point_mass_gravity",
     "third_body_spherical_harmonic_gravity",
     "third_body_mutual_spherical_harmonic_gravity", "thrust_acceleration",
     "relativistic_correction_acceleration", "empirical_acceleration"}

\* the name written for each enumerator (the names of the direct types are
\* those of the input file that follows the code)
accelerationTypes ==
    [accelerationType \in AvailableAcceleration |->
        CASE accelerationType = "undefined_acceleration" -> "undefined"
          [] accelerationType = "point_mass_gravity" -> "pointMassGravity"
          [] accelerationType = "aerodynamic" -> "aerodynamic"
          [] accelerationType = "cannon_ball_radiation_pressure" ->
                 "cannonBallRadiationPressure"
          [] accelerationType = "spherical_harmonic_gravity" ->
                 "sphericalHarmonicGravity"
          [] accelerationType = "mutual_spherical_harmonic_gravity" ->
                 "mutualSphericalHarmonicGravity"
          [] accelerationType = "third_body_point_mass_gravity" ->
                 "thirdBodyPointMassGravity"
          [] accelerationType = "third_body_spherical_harmonic_gravity" ->
                 "thirdBodySphericalHarmonicGravity"
          [] accelerationType = "third_body_mutual_spherical_harmonic_gravity" ->
                 "thirdBodyMutualSphericalHarmonicGravity"
          [] accelerationType = "thrust_acceleration" -> "thrust"
          [] accelerationType = "relativistic_correction_acceleration" ->
                 "relativisticCorrection"
          [] accelerationType = "empirical_acceleration" -> "empirical"]

unsupportedAccelerationTypes ==
    {"third_body_point_mass_gravity", "third_body_spherical_harmonic_gravity",
     "third_body_mutual_spherical_harmonic_gravity"}

\* jsonObject[ K::type ] = accelerationType writes the name of the enumerator
StringFromEnum(accelerationType) == accelerationTypes[accelerationType]

\* getValue< AvailableAcceleration > reads the enumerator back from its name
EnumFromString(name) ==
    IF \E accelerationType \in AvailableAcceleration :
           accelerationTypes[accelerationType] = name
    THEN CHOOSE accelerationType \in AvailableAcceleration :
             accelerationTypes[accelerationType] = name
    ELSE "unknown"

\* jsonObject[ key ] = value
PutValue(jsonObject, key, value) ==
    [k \in DOMAIN jsonObject \cup {key} |-> IF k = key THEN value ELSE jsonObject[k]]

HasValue(jsonObject, key) == key \in DOMAIN jsonObject

\* variant: the value of the object is ignored
GetDefaultValue(jsonObject, key, defaultValue) == defaultValue

\* getValue( jsonObject, key, defaultValue )
GetValueOr(jsonObject, key, defaultValue) ==
    IF HasValue(jsonObject, key) THEN jsonObject[key] ELSE defaultValue

\* boost::dynamic_pointer_cast followed by assertNonNullPointer
IsOfClass(accelerationSettings, class) == accelerationSettings.class = class

\* the members of the settings classes, as from_json passes them to the
\* constructors
BaseAccelerationSettings(accelerationType) ==
    [class |-> "AccelerationSettings", accelerationType_ |-> accelerationType]

SphericalHarmonicAccelerationSettings(maximumDegree, maximumOrder) ==
    [class |-> "SphericalHarmonicAccelerationSettings",
     accelerationType_ |-> "spherical_harmonic_gravity",
     maximumDegree_ |-> maximumDegree, maximumOrder_ |-> maximumOrder]

MutualSphericalHarmonicAccelerationSettings(degreeExerting, orderExerting, degreeUndergoing, orderUndergoing, degreeCentral, orderCentral) ==
    [class |-> "MutualSphericalHarmonicAccelerationSettings",
     accelerationType_ |-> "mutual_spherical_harmonic_gravity",
     maximumDegreeOfBodyExertingAcceleration_ |-> degreeExerting,
     maximumOrderOfBodyExertingAcceleration_ |-> orderExerting,
     maximumDegreeOfBodyUndergoingAcceleration_ |-> degreeUndergoing,
     maximumOrderOfBodyUndergoingAcceleration_ |-> orderUndergoing,
     maximumDegreeOfCentralBody_ |-> degreeCentral,
     maximumOrderOfCentralBody_ |-> orderCentral]

RelativisticAccelerationCorrectionSettings(schwarzschild, lenseThirring, deSitter, primaryBody, angularMomentum) ==
    [class |-> "RelativisticAccelerationCorrectionSettings",
     accelerationType_ |-> "relativistic_correction_acceleration",
     calculateSchwarzschildCorrection_ |-> schwarzschild,
     calculateLenseThirringCorrection_ |-> lenseThirring,
     calculateDeSitterCorrection_ |-> deSitter,
     primaryBody_ |-> primaryBody,
     centralBodyAngularMomentum_ |-> angularMomentum]

EmpiricalAccelerationSettings(constantAcceleration, sineAcceleration, cosineAcceleration) ==
    [class |-> "EmpiricalAccelerationSettings",
     accelerationType_ |-> "empirical_acceleration",
     constantAcceleration_ |-> constantAcceleration,
     sineAcceleration_ |-> sineAcceleration,
     cosineAcceleration_ |-> cosineAcceleration]

ThrustAccelerationSettings(thrust) ==
    [class |-> "ThrustAccelerationSettings",
     accelerationType_ |-> "thrust_acceleration", thrust_ |-> thrust]

Vector3d(x, y, z) == <<QInt(x), QInt(y), QInt(z)>>

NaNVector3d == <<QNaN, QNaN, QNaN>>

\* the default-constructed objects from_json takes its optional values from
MutualSphericalHarmonicDefaults ==
    MutualSphericalHarmonicAccelerationSettings(-1, -1, -1, -1, -1, -1)

RelativisticDefaults ==
    RelativisticAccelerationCorrectionSettings(TRUE, FALSE, FALSE, "", NaNVector3d)

EmpiricalDefaults ==
    EmpiricalAccelerationSettings(Vector3d(0, 0, 0), Vector3d(0, 0, 0),
                                  Vector3d(0, 0, 0))

\* to_json: the object after the call, and whether the call threw
ToJson(jsonObject, accelerationSettings) ==
    IF accelerationSettings.class = "null"
    THEN [thrown |-> FALSE, jsonObject |-> jsonObject]
    ELSE
    LET accelerationType == accelerationSettings.accelerationType_
        typed == PutValue(jsonObject, "type", StringFromEnum(accelerationType))
        Retyped(directType) == PutValue(typed, "type", StringFromEnum(directType))
        ThrownWith(object) == [thrown |-> TRUE, jsonObject |-> object]
        ReturnedWith(object) == [thrown |-> FALSE, jsonObject |-> object]
    IN  CASE accelerationType \in {"undefined_acceleration", "aerodynamic",
                                   "cannon_ball_radiation_pressure"} ->
                 ReturnedWith(typed)
          [] accelerationType \in {"point_mass_gravity",
                                   "third_body_point_mass_gravity"} ->
                 ReturnedWith(Retyped("point_mass_gravity"))
          [] accelerationType \in {"spherical_harmonic_gravity",
                                   "third_body_spherical_harmonic_gravity"} ->
                 LET retyped == Retyped("spherical_harmonic_gravity")
                 IN  IF ~IsOfClass(accelerationSettings,
                                   "SphericalHarmonicAccelerationSettings")
                     THEN ThrownWith(retyped)
                     ELSE ReturnedWith(
                              PutValue(PutValue(retyped,
                                  "maximumDegree", accelerationSettings.maximumDegree_),
                                  "maximumOrder", accelerationSettings.maximumOrder_))
          [] accelerationType \in {"mutual_spherical_harmonic_gravity",
                                   "third_body_mutual_spherical_harmonic_gravity"} ->
                 LET retyped == Retyped("mutual_spherical_harmonic_gravity")
                 IN  IF ~IsOfClass(accelerationSettings,
                                   "MutualSphericalHarmonicAccelerationSettings")
                     THEN ThrownWith(retyped)
                     ELSE ReturnedWith(
                              PutValue(PutValue(PutValue(PutValue(PutValue(PutValue(retyped,
                                  "maximumDegreeOfBodyExertingAcceleration",
                                  accelerationSettings.maximumDegreeOfBodyExertingAcceleration_),
                                  "maximumOrderOfBodyExertingAcceleration",
                                  accelerationSettings.maximumOrderOfBodyExertingAcceleration_),
                                  "maximumDegreeOfBodyUndergoingAcceleration",
                                  accelerationSettings.maximumDegreeOfBodyUndergoingAcceleration_),
                                  "maximumOrderOfBodyUndergoingAcceleration",
                                  accelerationSettings.maximumOrderOfBodyUndergoingAcceleration_),
                                  "maximumDegreeOfCentralBody",
                                  accelerationSettings.maximumDegreeOfCentralBody_),
                                  "maximumOrderOfCentralBody",
                                  accelerationSettings.maximumOrderOfCentralBody_))
          [] accelerationType = "thrust_acceleration" ->
                 IF ~IsOfClass(accelerationSettings, "ThrustAccelerationSettings")
                 THEN ThrownWith(typed)
                 ELSE ReturnedWith(PutValue(PutValue(NullJson,
                          "type", StringFromEnum("thrust_acceleration")),
                          "thrust", accelerationSettings.thrust_))
          [] accelerationType = "relativistic_correction_acceleration" ->
                 IF ~IsOfClass(accelerationSettings,
                               "RelativisticAccelerationCorrectionSettings")
                 THEN ThrownWith(typed)
                 ELSE ReturnedWith(
                          PutValue(PutValue(PutValue(PutValue(PutValue(typed,
                              "calculateSchwarzschildCorrection",
                              accelerationSettings.calculateSchwarzschildCorrection_),
                              "calculateLenseThirringCorrection",
                              accelerationSettings.calculateLenseThirringCorrection_),
                              "calculateDeSitterCorrection",
                              accelerationSettings.calculateDeSitterCorrection_),
                              "primaryBody", accelerationSettings.primaryBody_),
                              "centralBodyAngularMomentum",
                              accelerationSettings.centralBodyAngularMomentum_))
          [] accelerationType = "empirical_acceleration" ->
                 IF ~IsOfClass(accelerationSettings, "EmpiricalAccelerationSettings")
                 THEN ThrownWith(typed)
                 ELSE ReturnedWith(
                          PutValue(PutValue(PutValue(typed,
                              "constantAcceleration",
                              accelerationSettings.constantAcceleration_),
                              "sineAcceleration", accelerationSettings.sineAcceleration_),
                              "cosineAcceleration",
                              accelerationSettings.cosineAcceleration_))
          [] OTHER -> ThrownWith(typed)

\* from_json: how the call ended ("returned", "undefinedKey" when a required
\* key is missing, "unimplemented" from handleUnimplementedEnumValue) and
\* the pointer after it
FromJson(jsonObject, accelerationSettings) ==
    LET ReturnedWith(settings) == [status |-> "returned", accelerationSettings |-> settings]
        EndedWith(status) == [status |-> status, accelerationSettings |-> accelerationSettings]
    IN  IF ~HasValue(jsonObject, "type")
        THEN EndedWith("undefinedKey")
        ELSE
        LET accelerationType == EnumFromString(jsonObject["type"])
        IN  CASE accelerationType \in {"undefined_acceleration", "point_mass_gravity",
                                       "aerodynamic", "cannon_ball_radiation_pressure"} ->
                     ReturnedWith(BaseAccelerationSettings(accelerationType))
              [] accelerationType = "spherical_harmonic_gravity" ->
                     IF HasValue(jsonObject, "maximumDegree")
                        /\ HasValue(jsonObject, "maximumOrder")
                     THEN ReturnedWith(SphericalHarmonicAccelerationSettings(
                              jsonObject["maximumDegree"], jsonObject["maximumOrder"]))
                     ELSE EndedWith("undefinedKey")
              [] accelerationType = "mutual_spherical_harmonic_gravity" ->
                     IF /\ HasValue(jsonObject, "maximumDegreeOfBodyExertingAcceleration")
                        /\ HasValue(jsonObject, "maximumOrderOfBodyExertingAcceleration")
                        /\ HasValue(jsonObject, "maximumDegreeOfBodyUndergoingAcceleration")
                        /\ HasValue(jsonObject, "maximumOrderOfBodyUndergoingAcceleration")
                     THEN ReturnedWith(MutualSphericalHarmonicAccelerationSettings(
                              jsonObject["maximumDegreeOfBodyExertingAcceleration"],
                              jsonObject["maximumOrderOfBodyExertingAcceleration"],
                              jsonObject["maximumDegreeOfBodyUndergoingAcceleration"],
                              jsonObject["maximumOrderOfBodyUndergoingAcceleration"],
                              GetValueOr(jsonObject, "maximumDegreeOfCentralBody",
                                  MutualSphericalHarmonicDefaults.maximumDegreeOfCentralBody_),
                              GetValueOr(jsonObject, "maximumOrderOfCentralBody",
                                  MutualSphericalHarmonicDefaults.maximumOrderOfCentralBody_)))
                     ELSE EndedWith("undefinedKey")
              [] accelerationType = "thrust_acceleration" ->
                     IF HasValue(jsonObject, "thrust")
                     THEN ReturnedWith(ThrustAccelerationSettings(jsonObject["thrust"]))
                     ELSE EndedWith("undefinedKey")
              [] accelerationType = "relativistic_correction_acceleration" ->
                     ReturnedWith(RelativisticAccelerationCorrectionSettings(
                         GetValueOr(jsonObject, "calculateSchwarzschildCorrection",
                             RelativisticDefaults.calculateSchwarzschildCorrection_),
                         GetValueOr(jsonObject, "calculateLenseThirringCorrection",
                             RelativisticDefaults.calculateLenseThirringCorrection_),
                         GetValueOr(jsonObject, "calculateDeSitterCorrection",
                             RelativisticDefaults.calculateDeSitterCorrection_),
                         GetValueOr(jsonObject, "primaryBody",
                             RelativisticDefaults.primaryBody_),
                         GetValueOr(jsonObject, "centralBodyAngularMomentum",
                             RelativisticDefaults.centralBodyAngularMomentum_)))
              [] accelerationType = "empirical_acceleration" ->
                     ReturnedWith(EmpiricalAccelerationSettings(
                         GetValueOr(jsonObject, "constantAcceleration",
                             EmpiricalDefaults.constantAcceleration_),
                         GetValueOr(jsonObject, "sineAcceleration",
                             EmpiricalDefaults.sineAcceleration_),
                         GetValueOr(jsonObject, "cosineAcceleration",
                             EmpiricalDefaults.cosineAcceleration_)))
              [] OTHER -> EndedWith("unimplemented")

(***************************************************************************)
(* to_json called on a settings pointer, then from_json on the object it   *)
(* left.  The pointers are the null pointer, objects of each class with    *)
(* the type of their class or its third-body variant, and objects of the   *)
(* base class with every type.                                             *)
(***************************************************************************)
DegreeInputs == {0, 2}

VectorInputs == {Vector3d(0, 0, 0), Vector3d(1, 0, -2)}

AccelerationSettingsInputs ==
    {NullAccelerationSettings}
    \cup {BaseAccelerationSettings(accelerationType) :
             accelerationType \in AvailableAcceleration}
    \cup {[SphericalHarmonicAccelerationSettings(degree, order)
              EXCEPT !.accelerationType_ = accelerationType] :
             degree \in DegreeInputs, order \in DegreeInputs,
             accelerationType \in {"spherical_harmonic_gravity",
                                   "third_body_spherical_harmonic_gravity"}}
    \cup {[MutualSphericalHarmonicAccelerationSettings(
               degree, order, 2, undergoing, central, -1)
              EXCEPT !.accelerationType_ = accelerationType] :
             degree \in DegreeInputs, order \in DegreeInputs,
             undergoing \in DegreeInputs, central \in {-1, 2},
             accelerationType \in {"mutual_spherical_harmonic_gravity",
                                   "third_body_mutual_spherical_harmonic_gravity"}}
    \cup {RelativisticAccelerationCorrectionSettings(
              schwarzschild, lenseThirring, deSitter, primaryBody, angularMomentum) :
             schwarzschild \in BOOLEAN, lenseThirring \in BOOLEAN, deSitter \in BOOLEAN,
             primaryBody \in {"", "Sun"},
             angularMomentum \in {NaNVector3d, Vector3d(0, 0, 1)}}
    \cup {EmpiricalAccelerationSettings(constant, sine, cosine) :
             constant \in VectorInputs, sine \in VectorInputs, cosine \in VectorInputs}
    \cup {ThrustAccelerationSettings(thrust) : thrust \in {1, 2}}

\* the object handed to to_json: the null value, or an object left by an
\* earlier use
JsonInputs ==
    {NullJson,
     PutValue(PutValue(PutValue(NullJson, "type", "sphericalHarmonicGravity"),
              "maximumDegree", 5), "maximumOrder", 5)}

InitJson ==
    /\ Constructed(CHOOSE scenario \in ControlScenarios : TRUE)
    /\ \E settings \in AccelerationSettingsInputs, jsonObject \in JsonInputs :
          direct = [function |-> "to_json",
                    accelerationSettings |-> settings,
                    givenObject |-> jsonObject,
                    jsonObject |-> jsonObject,
                    thrown |-> FALSE,
                    parsed |-> [status |-> "none",
                                accelerationSettings |-> NullAccelerationSettings]]

CallToJson ==
    /\ direct.function = "to_json"
    /\ LET written == ToJson(direct.jsonObject, direct.accelerationSettings)
       IN  direct' = [direct EXCEPT
                        !.function = IF written.thrown THEN "thrown" ELSE "from_json",
                        !.jsonObject = written.jsonObject,
                        !.thrown = written.thrown]
    /\ UNCHANGED <<managerVars, inputVars, pc, loopVars, iterationVars, bookVars,
                   podOutput>>

CallFromJson ==
    /\ direct.function = "from_json"
    /\ direct' = [direct EXCEPT
                    !.function = "returned",
                    !.parsed = FromJson(direct.jsonObject, NullAccelerationSettings)]
    /\ UNCHANGED <<managerVars, inputVars, pc, loopVars, iterationVars, bookVars,
                   podOutput>>

NextJson == CallToJson \/ CallFromJson

SpecJson == InitJson /\ [][NextJson]_vars

DirectAccelerationTypes ==
    {"undefined_acceleration", "point_mass_gravity", "aerodynamic",
     "cannon_ball_radiation_pressure", "spherical_harmonic_gravity",
     "mutual_spherical_harmonic_gravity", "relativistic_correction_acceleration",
     "empirical_acceleration"}

\* the direct type to_json writes for a third-body type
DirectTypeOf(accelerationType) ==
    CASE accelerationType = "third_body_point_mass_gravity" -> "point_mass_gravity"
      [] accelerationType = "third_body_spherical_harmonic_gravity" ->
             "spherical_harmonic_gravity"
      [] accelerationType = "third_body_mutual_spherical_harmonic_gravity" ->
             "mutual_spherical_harmonic_gravity"
      [] OTHER -> accelerationType

\* C30: when to_json returns for settings of a direct type (undefined,
\* point mass, aerodynamic, cannon ball, spherical harmonic, mutual spherical
\* harmonic, relativistic correction, empirical), from_json of the object it
\* wrote returns settings of the same class, the same type and the same
\* members; for a third-body type the object names the direct type, and
\* from_json returns the same settings with the direct type and never ends in
\* its unsupported branch; a null pointer leaves the object as it was given
RoundTripKeepsAccelerationSettings ==
    /\ (direct.function \in {"from_json", "returned"}
        /\ direct.accelerationSettings.class = "null") =>
           direct.jsonObject = direct.givenObject
    /\ (direct.function \in {"from_json", "returned"}
        /\ direct.accelerationSettings.class # "null"
        /\ direct.accelerationSettings.accelerationType_ \in unsupportedAccelerationTypes) =>
           direct.jsonObject["type"] =
               accelerationTypes[DirectTypeOf(direct.accelerationSettings.accelerationType_)]
    /\ (direct.function = "returned"
        /\ direct.accelerationSettings.class # "null"
        /\ direct.accelerationSettings.accelerationType_
               \in DirectAccelerationTypes \cup unsupportedAccelerationTypes) =>
           /\ direct.parsed.status = "returned"
           /\ direct.parsed.accelerationSettings =
                  [direct.accelerationSettings EXCEPT
                      !.accelerationType_ = DirectTypeOf(@)]

\* the round trip of third-body spherical harmonic settings of degree 2 and
\* order 0 returned spherical harmonic settings of that degree and order
ThirdBodyRoundTripReturnedDirect ==
    /\ direct.function = "returned"
    /\ direct.accelerationSettings.class = "SphericalHarmonicAccelerationSettings"
    /\ direct.accelerationSettings.accelerationType_ =
           "third_body_spherical_harmonic_gravity"
    /\ direct.parsed.accelerationSettings =
           SphericalHarmonicAccelerationSettings(2, 0)

=============================================================================
